---- MODULE Spec2Model ----
(***************************************************************************)
(* Activity assembly, key binding and one-on-one creation of the           *)
(* conversation plugin (packages/plugin-conversation/src/conversation.js). *)
(*                                                                         *)
(* A JavaScript object is a function from the names of the fields it       *)
(* carries to their values; a field whose value is undefined is a field    *)
(* the object does not carry.  A bare string standing where an object may  *)
(* stand (a string actor, a non-object `object`) is the one-field object   *)
(* [str |-> s].  A url is the sequence of its "/"-delimited segments.      *)
(***************************************************************************)
EXTENDS Integers, Sequences, FiniteSets, TLC

\* ------------------------------------------------------------ JS objects

\* {}
Obj0 == [f \in {} |-> ""]

Has(o, f) == f \in DOMAIN o

IsString(x) == Has(x, "str")

\* isObject(x) for the values the model holds: everything but a bare string
IsObject(x) == ~IsString(x)

\* JavaScript truthiness of field f of object o: undefined and "" are falsy
Truthy(o, f) ==
  /\ Has(o, f)
  /\ IF f = "url" THEN o[f] # <<>> ELSE o[f] # ""

\* o with field f set to v
Set(o, f, v) == [g \in DOMAIN o \cup {f} |-> IF g = f THEN v ELSE o[g]]

\* lodash pick(o, ...fs)
Pick(o, fs) == [f \in DOMAIN o \cap fs |-> o[f]]

\* lodash defaults(o, src): src fills only the fields o does not carry
Defaults(o, src) ==
  [f \in DOMAIN o \cup DOMAIN src |-> IF f \in DOMAIN o THEN o[f] ELSE src[f]]

\* Object.assign(o, src), and lodash merge of a flat src: src overwrites
Assign(o, src) ==
  [f \in DOMAIN o \cup DOMAIN src |-> IF f \in DOMAIN src THEN src[f] ELSE o[f]]

\* url.split(`/`).pop()
LastSegment(url) == url[Len(url)]

\* this.spark.device.userId
UserId == "u0"

\* the fields prepare and prepareConversation copy from a conversation
TargetFields ==
  {"id", "url", "objectType", "kmsResourceObjectUrl", "defaultActivityEncryptionKeyUrl"}

\* ------------------------------------------------------------ prepare

prepareConversation(conversation) ==
  Defaults(Pick(conversation, TargetFields), [objectType |-> "conversation"])

\* the defaults were they assigned over what the activity carries
PrepareFillOverwriting(act, params, tempId) ==
  Assign(act, Pick(params, {"verb", "kmsMessage"})
                @@ [objectType |-> "activity",
                    clientTempId |-> tempId,
                    actor |-> [str |-> UserId]])

\* defaults(act, {verb, kmsMessage, objectType, clientTempId, actor})
PrepareFillDefaults(act, params, tempId) ==
  Defaults(act, Pick(params, {"verb", "kmsMessage"})
                  @@ [objectType |-> "activity",
                      clientTempId |-> tempId,
                      actor |-> [str |-> UserId]])

\* if (isString(act.actor)) act.actor = {objectType: `person`, id: act.actor}
PrepareNormalizeActor(act) ==
  IF Has(act, "actor") /\ IsString(act.actor)
    THEN Set(act, "actor", [objectType |-> "person", id |-> act.actor.str])
    ELSE act

\* if (params[key]) { act[key] = act[key] || {}; defaults(act[key], params[key]) }
PrepareDefaultEntity(act, params, key) ==
  IF Has(params, key)
    THEN Set(act, key, Defaults(IF Has(act, key) THEN act[key] ELSE Obj0, params[key]))
    ELSE act

\* the merge were params.target merged whole, without the pick
PrepareMergeWholeTarget(act, params) ==
  IF Has(params, "target")
    THEN Set(act, "target",
             Assign(IF Has(act, "target") /\ IsObject(act.target) THEN act.target ELSE Obj0,
                    params.target))
    ELSE act

\* merge(act, {target: pick(params.target, ...)})
PrepareMergeTarget(act, params) ==
  IF Has(params, "target")
    THEN Set(act, "target",
             Assign(IF Has(act, "target") /\ IsObject(act.target) THEN act.target ELSE Obj0,
                    Pick(params.target, TargetFields)))
    ELSE act

\* if (act[key] && act[key].url && !act[key].id) act[key].id = act[key].url.split(`/`).pop()
PrepareDeriveId(act, key) ==
  IF Has(act, key) /\ Truthy(act[key], "url") /\ ~Truthy(act[key], "id")
    THEN Set(act, key, Set(act[key], "id", LastSegment(act[key].url)))
    ELSE act

\* the working activity after every stage that precedes validation
PrepareShape(base, params, tempId) ==
  LET a1 == PrepareNormalizeActor(PrepareFillDefaults(base, params, tempId))
      a2 == PrepareDefaultEntity(PrepareDefaultEntity(a1, params, "actor"), params, "object")
      a3 == PrepareMergeTarget(a2, params)
  IN  PrepareDeriveId(PrepareDeriveId(a3, "object"), "target")

\* the objectType check were it made of the object alone
PrepareMissingObjectTypeOfObject(act) ==
  Has(act, "object") /\ ~Truthy(act.object, "objectType")

\* if (act[key] && !act[key].objectType) throw ...
PrepareMissingObjectType(act) ==
  \E key \in {"actor", "object", "target"} :
     Has(act, key) /\ ~Truthy(act[key], "objectType")

\* the displayName check were it to test for the field instead of its value
PrepareContentWithAbsentDisplayName(act) ==
  /\ Has(act, "object")
  /\ Truthy(act.object, "content")
  /\ ~Has(act.object, "displayName")

\* if (act.object && act.object.content && !act.object.displayName) reject
PrepareContentWithoutDisplayName(act) ==
  /\ Has(act, "object")
  /\ Truthy(act.object, "content")
  /\ ~Truthy(act.object, "displayName")

\* the then-block of prepare: the activity, or the rejection
PrepareThen(base, params, tempId) ==
  LET act == PrepareShape(base, params, tempId)
  IN  IF PrepareMissingObjectType(act)
        THEN [ok |-> FALSE, error |-> "objectType must be defined"]
        ELSE IF PrepareContentWithoutDisplayName(act)
          THEN [ok |-> FALSE, error |-> "content but no displayName"]
          ELSE [ok |-> TRUE, act |-> act]

\* ------------------------------------------------------------ state

VARIABLES
  prep,     \* the prepare call under study: its inputs, its position, its result
  uuids,    \* how many identifiers uuid.v4() has handed out
  calls,    \* per caller: the operation in flight, its position, its request log
  server,   \* the conversations the conversation service holds
  refs,     \* the conversation reference objects the callers hold, by name
  listing,  \* the _list call under study: its response, its position, its result
  team      \* the team under encryptTeam: the object and the transforms in flight

vars == <<prep, uuids, calls, server, refs, listing, team>>

\* uuid.v4(): an identifier no earlier call has produced
FreshUuid(n) == [uuid |-> n + 1]

\* ------------------------------------------------------------ inputs of prepare

\* the objects that carry field f with one of vals, or do not carry it
Opt(f, vals) == {Obj0} \cup {f :> v : v \in vals}

SampleUrl == <<"https://conv.example", "conversations", "c9">>

ActorInputs ==
  { Obj0,
    [actor |-> [str |-> "bob"]],
    [actor |-> [id |-> "bob"]],
    [actor |-> [id |-> "bob", objectType |-> ""]],
    [actor |-> [id |-> "bob", objectType |-> "person"]] }

ObjectValues ==
  { Obj0,
    [objectType |-> "comment"],
    [objectType |-> "comment", displayName |-> "hi"],
    [objectType |-> "comment", content |-> "<b>hi</b>"],
    [objectType |-> "comment", content |-> "<b>hi</b>", displayName |-> ""],
    [objectType |-> "comment", content |-> "<b>hi</b>", displayName |-> "hi"],
    [objectType |-> "", displayName |-> "hi"],
    [content |-> "<b>hi</b>"],
    [url |-> SampleUrl],
    [url |-> SampleUrl, objectType |-> "content", id |-> "f1"] }

ObjectInputs == {Obj0} \cup {[object |-> o] : o \in ObjectValues}

TargetValues ==
  { Obj0,
    [url |-> SampleUrl],
    [id |-> "c1", objectType |-> "conversation", tags |-> "LOCKED"],
    [id |-> "", url |-> <<"https://conv.example", "conversations", "">>, objectType |-> "conversation"] }

TargetInputs == {Obj0} \cup {[target |-> t] : t \in TargetValues}

HeadInputs ==
  { Obj0,
    [verb |-> "custom", clientTempId |-> [caller |-> "t1"], objectType |-> "custom-activity",
     kmsMessage |-> [method |-> "create", uri |-> "/resources", userIds |-> <<"u0">>,
                     keyUris |-> <<"k0">>]] }

\* the partial activities (or hook results) prepare is applied to
ActivityInputs ==
  { h @@ a @@ o @@ t :
      h \in HeadInputs, a \in ActorInputs, o \in ObjectInputs, t \in TargetInputs }

SampleKms == [method |-> "update", resourceUri |-> "<KRO>", uri |-> "k1"]

ParamsInputs ==
  { [verb |-> "post"] @@ k @@ a @@ o @@ t :
      k \in Opt("kmsMessage", {SampleKms}),
      a \in Opt("actor", {[objectType |-> "person"]}),
      o \in Opt("object", {[objectType |-> "comment"],
                           [objectType |-> "comment", displayName |-> "hello"],
                           [content |-> "<i>x</i>"]}),
      t \in Opt("target", {Obj0,
                           [id |-> "c2", objectType |-> "conversation",
                            url |-> <<"https://conv.example", "conversations", "c2">>,
                            tags |-> "MUTED"],
                           [url |-> <<"https://conv.example", "conversations", "c3">>,
                            kmsResourceObjectUrl |-> "kro1"]}) }

\* ------------------------------------------------------------ prepare as a process

\* the callers that may have an operation in flight at the same time
NumCallers == 2

Callers == 1..NumCallers

NoCall == [op |-> "none", pc |-> "idle", log |-> <<>>]

NoPrepare == [at |-> "unused"]

\* no _list call is under study
NoList == [at |-> "unused"]

\* no team is under study
NoTeam == [at |-> "unused"]

\* no caller holds a conversation reference yet
NoRefs == [r \in Callers |-> Obj0]

\* prepare(activity, params) is called: the hook (activity.prepare) is absent,
\* resolves with an activity, or rejects
InitPrepare ==
  /\ \E hook \in {"none", "resolves", "rejects"}, base \in ActivityInputs,
        params \in ParamsInputs :
       /\ hook = "rejects" => base = Obj0
       /\ prep = [at |-> "called", hook |-> hook, base |-> base, params |-> params]
  /\ uuids = 0
  /\ calls = [p \in Callers |-> NoCall]
  /\ server = {}
  /\ refs = NoRefs
  /\ team = NoTeam
  /\ listing = NoList

\* Promise.resolve(activity.prepare ? activity.prepare(params) : activity)
PrepareAwait ==
  /\ prep.at = "called"
  /\ prep' = [prep EXCEPT !.at = "awaiting"]
  /\ UNCHANGED <<uuids, calls, server, refs, listing, team>>

\* the hook's promise rejects: the then-block never runs
PrepareHookRejected ==
  /\ prep.at = "awaiting"
  /\ prep.hook = "rejects"
  /\ prep' = [at |-> "done", result |-> [ok |-> FALSE, error |-> "hook rejected"]] @@ prep
  /\ UNCHANGED <<uuids, calls, server, refs, listing, team>>

\* the then-block were it to delete from params the target it has merged
PrepareRunConsumingParams ==
  /\ prep.at = "awaiting"
  /\ prep.hook # "rejects"
  /\ prep' = [at |-> "done", result |-> PrepareThen(prep.base, prep.params, FreshUuid(uuids)),
              params |-> [f \in DOMAIN prep.params \ {"target"} |-> prep.params[f]]]
               @@ prep
  /\ uuids' = uuids + 1
  /\ UNCHANGED <<calls, server, refs, listing, team>>

\* .then((act) => { ... })
PrepareRun ==
  /\ prep.at = "awaiting"
  /\ prep.hook # "rejects"
  /\ prep' = [at |-> "done", result |-> PrepareThen(prep.base, prep.params, FreshUuid(uuids))]
               @@ prep
  /\ uuids' = uuids + 1
  /\ UNCHANGED <<calls, server, refs, listing, team>>

NextPrepare == PrepareAwait \/ PrepareHookRejected \/ PrepareRun

SpecPrepare == InitPrepare /\ [][NextPrepare]_vars

\* prepare is called a second time with the same params and either an equal
\* copy of the partial activity or, when there is no hook, the very object the
\* first call was given, which its defaults, merge and id derivation wrote into
PrepareAgain ==
  /\ prep.at = "done"
  /\ ~Has(prep, "first")
  /\ \E same \in BOOLEAN :
       prep' = [at |-> "called", hook |-> prep.hook, params |-> prep.params,
                first |-> prep.result,
                base |-> IF same /\ prep.hook = "none"
                           THEN PrepareShape(prep.base, prep.params, [uuid |-> uuids])
                           ELSE prep.base]
  /\ UNCHANGED <<uuids, calls, server, refs, listing, team>>

NextTwice == NextPrepare \/ PrepareAgain

SpecTwice == InitPrepare /\ [][NextTwice]_vars

\* ------------------------------------------------------------ collaborators

\* the participant references callers pass: identifiers, and an e-mail address
ParticipantRefs == {"u0", "u1", "bob@example.com", "u2"}

\* this.spark.user.asUUID(participant): the identifier a reference resolves to
asUUID(ref) == IF ref = "bob@example.com" THEN "u1" ELSE ref

\* the statusCode of the "not found" failure
NotFound == 404

\* the statusCode a failing collaborator request carries
FailStatuses == {NotFound, 500}

\* this.spark.device.getServiceUrl(`conversation`)
ServiceUrl == "https://conv.example"

\* the identifiers the conversation service gives the conversations it creates
ConvNames == <<"c1", "c2", "c3", "c4", "c5", "c6">>

OneOnOneTags == <<"ONE_ON_ONE">>

\* a one-on-one conversation the service may hold before any call is made
OldConversation ==
  [id |-> "c0", participants |-> {UserId, "u1"}, tags |-> OneOnOneTags,
   activities |-> <<[verb |-> "create", id |-> "a0"]>>]

\* the conversation the service holds for a one-on-one lookup of `user`
ServerLookup(user) ==
  {c \in server : c.tags = OneOnOneTags /\ c.participants = {UserId, user}}

\* the elements of a sequence
Range(s) == {s[i] : i \in DOMAIN s}

\* POST conversations on a service that is idempotent by participant pair: a
\* payload tagged ONE_ON_ONE for a pair that has a conversation yields that one
ServerCreate(payload) ==
  LET tags  == IF Has(payload, "tags") THEN payload.tags ELSE <<>>
      who   == Range(payload.kmsMessage.userIds)
      old   == {c \in server : c.tags = OneOnOneTags /\ c.participants = who}
      fresh == [id |-> ConvNames[Cardinality(server) + 1], participants |-> who,
                tags |-> tags, activities |-> payload.activities.items]
  IN  IF tags = OneOnOneTags /\ old # {} THEN CHOOSE c \in old : TRUE ELSE fresh

\* the body of a response that carries conversation c; a JSON array has no
\* `items`, an {items} collection has no `push`
ConversationBody(c, asArray) ==
  [id |-> c.id, url |-> <<ServiceUrl, "conversations", c.id>>,
   objectType |-> "conversation", tags |-> c.tags,
   activities |-> [array |-> asArray, items |-> c.activities]]

\* the body of the response to a submitted activity
ActivityBody(activity) == [id |-> "a1", published |-> "now"] @@ activity

\* ------------------------------------------------------------ request log

Request(what, detail) == [kind |-> "request", what |-> what] @@ detail

Response(what, detail) == [kind |-> "response", what |-> what] @@ detail

\* with fields `new`, the call of caller p
Becomes(p, new) == calls' = [calls EXCEPT ![p] = new @@ @]

Logged(p, events) == calls[p].log \o events

\* positions in p's log of the requests (responses) of one sort
RequestsOf(p, what) ==
  {i \in DOMAIN calls[p].log :
     calls[p].log[i].kind = "request" /\ calls[p].log[i].what = what}

ResponsesOf(p, what) ==
  {i \in DOMAIN calls[p].log :
     calls[p].log[i].kind = "response" /\ calls[p].log[i].what = what}

Rejected(reason) == [pc |-> "rejected", reason |-> reason]

\* ------------------------------------------------------------ submit, post, expand

VerbOf(activity) == IF Has(activity, "verb") THEN activity.verb ELSE ""

\* the descriptor were every verb routed to the activities resource
SubmitRequestToActivities(activity) ==
  Request("submit",
    [method |-> "POST", service |-> "conversation", resource |-> "activities",
     body |-> activity, qs |-> [personRefresh |-> TRUE]])

\* the request descriptor submit hands to this.request
SubmitRequest(activity) ==
  Request("submit",
    [method |-> "POST", service |-> "conversation",
     resource |-> IF VerbOf(activity) = "share" THEN "content" ELSE "activities",
     body |-> activity,
     qs |-> IF VerbOf(activity) = "share"
              THEN [personRefresh |-> TRUE, transcode |-> TRUE, async |-> FALSE]
              ELSE [personRefresh |-> TRUE]])

\* submit were the trigger raised for every verb
submitAlwaysTriggering(activity) ==
  <<[kind |-> "trigger", what |-> "user-activity"], SubmitRequest(activity)>>

\* submit(activity) up to the point it awaits the response: the user-activity
\* trigger, then the request
submit(activity) ==
  (IF VerbOf(activity) # "acknowledge"
     THEN <<[kind |-> "trigger", what |-> "user-activity"]>> ELSE <<>>)
  \o <<SubmitRequest(activity)>>

\* the chain were submit to run on the working activity whatever prepare decided
PrepareThenSubmitUnchecked(base, params, tempId) ==
  LET r == PrepareThen(base, params, tempId)
  IN  <<[kind |-> "prepared", params |-> params] @@ r>>
        \o submit(PrepareShape(base, params, tempId))

\* prepare(activity, params).then((a) => this.submit(a)) for an activity without
\* a hook: the params prepare was handed and what its then-block yields, and the
\* submission when it yields an activity
PrepareThenSubmit(base, params, tempId) ==
  LET r == PrepareThen(base, params, tempId)
  IN  <<[kind |-> "prepared", params |-> params] @@ r>>
        \o (IF r.ok THEN submit(r.act) ELSE <<>>)

\* the params post hands to prepare
PostParams(conversation, message) ==
  [verb |-> "post",
   target |-> prepareConversation(conversation),
   object |-> Assign([objectType |-> "comment"],
                     IF IsString(message) THEN [displayName |-> message.str] ELSE message)]

\* expand(verb, object, target, actor), args carrying the arguments that are given
expand(args) ==
  LET actor == IF Has(args, "actor") /\ (IsObject(args.actor) \/ args.actor.str # "")
                 THEN args.actor ELSE [str |-> UserId]
  IN  [actor |-> IF IsString(actor) THEN [objectType |-> "person", id |-> actor.str]
                                    ELSE actor,
       objectType |-> "activity",
       verb |-> args.verb]
      @@ Pick(args, {"object", "target"})

\* lodash uniq: the first occurrence of each element, in order
RECURSIVE uniq(_)
uniq(s) ==
  IF s = <<>> THEN <<>>
  ELSE LET front == uniq(SubSeq(s, 1, Len(s) - 1))
       IN  IF s[Len(s)] \in Range(front) THEN front ELSE Append(front, s[Len(s)])

\* the participant list were uniq left out
ResolvedParticipantsWithDuplicates(ids) == <<UserId>> \o ids

\* participants.unshift(this.spark.device.userId); params.participants = uniq(participants)
ResolvedParticipants(ids) == uniq(<<UserId>> \o ids)

\* the branch were options.forceGrouped ignored
IsOneOnOneIgnoringOptions(params, options) == Len(params.participants) = 2

\* params.participants.length === 2 && !(options && options.forceGrouped)
IsOneOnOne(params, options) ==
  /\ Len(params.participants) = 2
  /\ ~(Has(options, "forceGrouped") /\ options.forceGrouped)

prepareConversationForCreation(params) ==
  LET adds == [i \in 1..Len(params.participants) |->
                 expand([verb |-> "add",
                         object |-> [objectType |-> "person", id |-> params.participants[i]]])]
      post == IF Truthy(params, "comment")
                THEN <<expand([verb |-> "post",
                               object |-> [objectType |-> "comment",
                                           displayName |-> params.comment]])>>
                ELSE <<>>
  IN  [activities |-> [items |-> <<expand([verb |-> "create"])>> \o adds \o post],
       objectType |-> "conversation",
       kmsMessage |-> [method |-> "create", uri |-> "/resources",
                       userIds |-> params.participants, keyUris |-> <<>>]]
      @@ (IF Truthy(params, "displayName") THEN Pick(params, {"displayName"}) ELSE Obj0)

\* the payload were payload.tags never assigned
OneOnOnePayloadUntagged(params) == prepareConversationForCreation(params)

\* the payload the catch handler of _maybeCreateOneOnOneThenPost creates with
OneOnOnePayload(params) ==
  Set(prepareConversationForCreation(params), "tags", OneOnOneTags)

\* _create(payload) up to the point it awaits the response
CreateRequest(payload) ==
  Request("create", [method |-> "POST", service |-> "conversation",
                     resource |-> "conversations", body |-> payload])

\* reason.statusCode === 404
IsNotFound(reason) == Has(reason, "statusCode") /\ reason.statusCode = NotFound

\* the catch handler were it to create with the grouped payload as it stands
CatchThenCreateGrouped(call, reason, events) ==
  IF IsNotFound(reason)
    THEN [pc |-> "creating",
          log |-> call.log \o events
                    \o <<CreateRequest(prepareConversationForCreation(call.params))>>]
    ELSE Rejected(reason) @@ [log |-> call.log \o events]

\* the handler were it to leave the chain unsettled on any other rejection
CatchThenCreateOrWait(call, reason, events) ==
  IF IsNotFound(reason)
    THEN [pc |-> "creating",
          log |-> call.log \o events \o <<CreateRequest(OneOnOnePayload(call.params))>>]
    ELSE [pc |-> "unsettled", log |-> call.log \o events]

\* .catch((reason) => ...) of _maybeCreateOneOnOneThenPost: the fields of the call
\* after the handler ran on a rejection with `reason`, `events` logged before it
CatchThenCreate(call, reason, events) ==
  IF IsNotFound(reason)
    THEN [pc |-> "creating",
          log |-> call.log \o events \o <<CreateRequest(OneOnOnePayload(call.params))>>]
    ELSE Rejected(reason) @@ [log |-> call.log \o events]

\* .then((c) => ...) of create: c is returned, or shared to first
ThenFiles(call, c, events) ==
  IF Has(call.params, "files")
    THEN [pc |-> "share-hook", inner |-> c, log |-> call.log \o events]
    ELSE [pc |-> "resolved", inner |-> c, result |-> c, log |-> call.log \o events]

\* ------------------------------------------------------------ create

\* the longest participant list a caller passes
MaxParticipants == 2

ParticipantLists ==
  UNION {[1..n -> ParticipantRefs] : n \in 0..MaxParticipants}

\* the params and options create is called with
CreateParams ==
  { a @@ b @@ c :
      a \in Opt("participants", ParticipantLists),
      b \in Opt("comment", {"hello"}),
      c \in Opt("files", {<<"file1">>}) }

CreateOptions == {Obj0, [forceGrouped |-> TRUE]}

\* create(params, options) up to Promise.all(params.participants.map(asUUID))
CreateCall(p, params, options) ==
  /\ calls[p].pc = "idle"
  /\ IF ~Has(params, "participants") \/ Len(params.participants) = 0
       THEN Becomes(p, [op |-> "create", params |-> params, options |-> options]
                         @@ Rejected([error |-> "params.participants is required"]))
       ELSE Becomes(p, [op |-> "create", params |-> params, options |-> options,
                        pc |-> "identity",
                        log |-> [i \in 1..Len(params.participants) |->
                                   Request("asUUID", [ref |-> params.participants[i],
                                                      create |-> TRUE])]])
  /\ UNCHANGED <<prep, uuids, server, refs, listing, team>>

Create(p) ==
  /\ calls[p].pc = "idle"
  /\ \E params \in CreateParams, options \in CreateOptions : CreateCall(p, params, options)

\* one asUUID rejects: Promise.all rejects, and create has no handler for it
CreateIdentityRejected(p) ==
  /\ calls[p].op = "create" /\ calls[p].pc = "identity"
  /\ \E status \in FailStatuses :
       Becomes(p, Rejected([statusCode |-> status])
                    @@ [log |-> Logged(p, <<Response("asUUID", [statusCode |-> status])>>)])
  /\ UNCHANGED <<prep, uuids, server, refs, listing, team>>

\* the call with params.participants replaced by the resolved, deduplicated list
WithResolved(call) ==
  [params |-> Set(call.params, "participants",
                  ResolvedParticipants([i \in 1..Len(call.params.participants) |->
                                          asUUID(call.params.participants[i])])),
   log |-> call.log \o <<Response("asUUID", [statusCode |-> 200])>>] @@ call

\* every asUUID resolved, two participants: _maybeCreateOneOnOneThenPost calls
\* get({user: params.participants[1]}, options), which resolves the user first
CreateEntersOneOnOne(p) ==
  /\ calls[p].op = "create" /\ calls[p].pc = "identity"
  /\ LET call == WithResolved(calls[p])
     IN  /\ IsOneOnOne(call.params, call.options)
         /\ Becomes(p, [pc |-> "lookup-identity",
                        log |-> call.log \o <<Request("asUUID",
                                                [ref |-> call.params.participants[2],
                                                 for |-> "get"])>>]
                         @@ call)
  /\ UNCHANGED <<prep, uuids, server, refs, listing, team>>

\* every asUUID resolved, any other case: _createGrouped(params)
CreateEntersGrouped(p) ==
  /\ calls[p].op = "create" /\ calls[p].pc = "identity"
  /\ LET call == WithResolved(calls[p])
     IN  /\ ~IsOneOnOne(call.params, call.options)
         /\ Becomes(p, [pc |-> "creating",
                        log |-> call.log
                                  \o <<CreateRequest(prepareConversationForCreation(call.params))>>]
                         @@ call)
  /\ UNCHANGED <<prep, uuids, server, refs, listing, team>>

\* get: asUUID(user) resolved, the lookup request goes out
LookupIdentityResolved(p) ==
  /\ calls[p].op = "create" /\ calls[p].pc = "lookup-identity"
  /\ LET user == asUUID(calls[p].params.participants[2])
     IN  Becomes(p, [pc |-> "lookup",
                     log |-> Logged(p, <<Response("asUUID", [statusCode |-> 200,
                                                              for |-> "get"]),
                                         Request("lookup",
                                           [service |-> "conversation",
                                            resource |-> <<"conversations", "user", user>>,
                                            user |-> user])>>)])
  /\ UNCHANGED <<prep, uuids, server, refs, listing, team>>

\* get: asUUID(user) rejected; the catch handler sees the rejection
LookupIdentityRejected(p) ==
  /\ calls[p].op = "create" /\ calls[p].pc = "lookup-identity"
  /\ \E status \in FailStatuses :
       Becomes(p, CatchThenCreate(calls[p], [statusCode |-> status],
                                  <<Response("asUUID", [statusCode |-> status,
                                                        for |-> "get"])>>))
  /\ UNCHANGED <<prep, uuids, server, refs, listing, team>>

\* the service holds the one-on-one conversation: it is returned, after the
\* comment, when there is one, has been posted to it
LookupFound(p) ==
  /\ calls[p].op = "create" /\ calls[p].pc = "lookup"
  /\ \E c \in ServerLookup(asUUID(calls[p].params.participants[2])), asArray \in BOOLEAN :
       LET conversation == ConversationBody(c, asArray)
           found == <<Response("lookup", [statusCode |-> 200, body |-> conversation])>>
           posted == PrepareThenSubmit(Obj0,
                       PostParams(conversation, [displayName |-> calls[p].params.comment]),
                       FreshUuid(uuids))
       IN  IF Truthy(calls[p].params, "comment")
             THEN /\ uuids' = uuids + 1
                  /\ IF posted[1].ok
                       THEN Becomes(p, [pc |-> "posting", conversation |-> conversation,
                                        log |-> Logged(p, found \o posted)])
                       ELSE Becomes(p, CatchThenCreate(calls[p], [error |-> posted[1].error],
                                                       found \o posted))
             ELSE /\ uuids' = uuids
                  /\ Becomes(p, ThenFiles(calls[p], conversation, found))
  /\ UNCHANGED <<prep, server, refs, listing, team>>

\* the service holds no such conversation: 404, and the catch handler creates
LookupNotFound(p) ==
  /\ calls[p].op = "create" /\ calls[p].pc = "lookup"
  /\ ServerLookup(asUUID(calls[p].params.participants[2])) = {}
  /\ Becomes(p, CatchThenCreate(calls[p], [statusCode |-> NotFound],
                                <<Response("lookup", [statusCode |-> NotFound])>>))
  /\ UNCHANGED <<prep, uuids, server, refs, listing, team>>

\* the lookup fails for another reason
LookupFailed(p) ==
  /\ calls[p].op = "create" /\ calls[p].pc = "lookup"
  /\ \E status \in FailStatuses \ {NotFound} :
       Becomes(p, CatchThenCreate(calls[p], [statusCode |-> status],
                                  <<Response("lookup", [statusCode |-> status])>>))
  /\ UNCHANGED <<prep, uuids, server, refs, listing, team>>

\* conversation.activities.push(activity)
PushComment(conversation, activity) ==
  IF conversation.activities.array
    THEN [ok |-> TRUE,
          value |-> [conversation EXCEPT !.activities.items = Append(@, activity)]]
    ELSE [ok |-> FALSE, reason |-> [error |-> "TypeError: conversation.activities.push"]]

\* the comment is posted: it is pushed onto the conversation, which is returned
PostSucceeded(p) ==
  /\ calls[p].op = "create" /\ calls[p].pc = "posting"
  /\ LET sent     == calls[p].log[Len(calls[p].log)].body
         activity == ActivityBody(sent)
         events   == <<Response("submit", [statusCode |-> 200, body |-> activity])>>
         pushed   == PushComment(calls[p].conversation, activity)
     IN  IF pushed.ok
           THEN Becomes(p, ThenFiles(calls[p], pushed.value, events))
           ELSE Becomes(p, CatchThenCreate(calls[p], pushed.reason, events))
  /\ UNCHANGED <<prep, uuids, server, refs, listing, team>>

\* the post fails: the catch handler sees the rejection
PostFailed(p) ==
  /\ calls[p].op = "create" /\ calls[p].pc = "posting"
  /\ \E status \in FailStatuses :
       Becomes(p, CatchThenCreate(calls[p], [statusCode |-> status],
                                  <<Response("submit", [statusCode |-> status])>>))
  /\ UNCHANGED <<prep, uuids, server, refs, listing, team>>

\* _create: .then((res) => res.body)
CreationSucceeded(p) ==
  /\ calls[p].op = "create" /\ calls[p].pc = "creating"
  /\ \E asArray \in BOOLEAN :
       LET payload == calls[p].log[Len(calls[p].log)].body
           c       == ServerCreate(payload)
           body    == ConversationBody(c, asArray)
       IN  /\ server' = server \cup {c}
           /\ Becomes(p, ThenFiles(calls[p], body,
                                   <<Response("create", [statusCode |-> 200, body |-> body])>>))
  /\ UNCHANGED <<prep, uuids, refs, listing, team>>

CreationFailed(p) ==
  /\ calls[p].op = "create" /\ calls[p].pc = "creating"
  /\ \E status \in FailStatuses :
       Becomes(p, Rejected([statusCode |-> status])
                    @@ [log |-> Logged(p, <<Response("create", [statusCode |-> status])>>)])
  /\ UNCHANGED <<prep, uuids, server, refs, listing, team>>

\* ShareActivity#prepare: the activity the share hook resolves with
ShareHookResult ==
  [verb |-> "share", object |-> [objectType |-> "content", files |-> <<"file1">>]]

\* share(c, params.files): the hook of the ShareActivity rejects (an upload failed)
ShareHookRejected(p) ==
  /\ calls[p].op = "create" /\ calls[p].pc = "share-hook"
  /\ \E status \in FailStatuses :
       Becomes(p, Rejected([statusCode |-> status])
                    @@ [log |-> Logged(p, <<[kind |-> "hook", ok |-> FALSE]>>)])
  /\ UNCHANGED <<prep, uuids, server, refs, listing, team>>

\* share(c, params.files): the hook resolves, prepare's then-block runs, submit
ShareHookResolved(p) ==
  /\ calls[p].op = "create" /\ calls[p].pc = "share-hook"
  /\ LET events == PrepareThenSubmit(ShareHookResult,
                                     [target |-> prepareConversation(calls[p].inner)],
                                     FreshUuid(uuids))
     IN  Becomes(p, (IF events[1].ok THEN [pc |-> "sharing"]
                                     ELSE Rejected([error |-> events[1].error]))
                      @@ [log |-> Logged(p, <<[kind |-> "hook", ok |-> TRUE]>> \o events)])
  /\ uuids' = uuids + 1
  /\ UNCHANGED <<prep, server, refs, listing, team>>

\* c.activities.items.push(a)
PushShared(c, activity) ==
  IF c.activities.array
    THEN [ok |-> FALSE, reason |-> [error |-> "TypeError: c.activities.items is undefined"]]
    ELSE [ok |-> TRUE, value |-> [c EXCEPT !.activities.items = Append(@, activity)]]

ShareSucceeded(p) ==
  /\ calls[p].op = "create" /\ calls[p].pc = "sharing"
  /\ LET activity == ActivityBody(calls[p].log[Len(calls[p].log)].body)
         events   == <<Response("submit", [statusCode |-> 200, body |-> activity])>>
         pushed   == PushShared(calls[p].inner, activity)
     IN  Becomes(p, (IF pushed.ok THEN [pc |-> "resolved", result |-> pushed.value]
                                  ELSE Rejected(pushed.reason))
                      @@ [log |-> Logged(p, events)])
  /\ UNCHANGED <<prep, uuids, server, refs, listing, team>>

ShareFailed(p) ==
  /\ calls[p].op = "create" /\ calls[p].pc = "sharing"
  /\ \E status \in FailStatuses :
       Becomes(p, Rejected([statusCode |-> status])
                    @@ [log |-> Logged(p, <<Response("submit", [statusCode |-> status])>>)])
  /\ UNCHANGED <<prep, uuids, server, refs, listing, team>>

\* ------------------------------------------------------------ activity operations

\* the operations that submit one activity to a conversation
ObjectOps == {"acknowledge", "delete", "update", "tag", "untag"}

IdentityOps == {"add", "leave"}

ModerationOps == {"assignModerator", "unassignModerator"}

ActivityOps == ObjectOps \cup IdentityOps \cup ModerationOps \cup {"post", "updateKey"}

AcknowledgeParams(conversation, object) ==
  [verb |-> "acknowledge",
   target |-> prepareConversation(conversation),
   object |-> [objectType |-> "activity"] @@ Pick(object, {"id", "url"})]

\* add's params were the authorization not tied to the key resource object
AddParamsWithoutResource(conversation, id) ==
  [verb |-> "add",
   target |-> prepareConversation(conversation),
   object |-> [id |-> id, objectType |-> "person"],
   kmsMessage |-> [method |-> "create", uri |-> "/authorizations", userIds |-> <<id>>]]

AddParams(conversation, id) ==
  [verb |-> "add",
   target |-> prepareConversation(conversation),
   object |-> [id |-> id, objectType |-> "person"],
   kmsMessage |-> [method |-> "create", uri |-> "/authorizations",
                   resourceUri |-> "<KRO>", userIds |-> <<id>>]]

DeleteParams(conversation, object) ==
  [verb |-> "delete",
   target |-> prepareConversation(conversation),
   object |-> Pick(object, {"id", "url", "objectType"})]

LeaveParams(conversation, id) ==
  [verb |-> "leave",
   target |-> prepareConversation(conversation),
   object |-> [id |-> id, objectType |-> "person"],
   kmsMessage |-> [method |-> "delete",
                   uri |-> [path |-> "<KRO>/authorizations", authId |-> id]]]

UpdateParams(conversation, object) ==
  [verb |-> "update",
   target |-> prepareConversation(conversation),
   object |-> object]

\* assignModerator, unassignModerator: c is the reference _inferConversationUrl
\* resolved with
ModerationParams(verb, c, userId) ==
  [verb |-> verb,
   target |-> prepareConversation(c),
   object |-> [id |-> userId, objectType |-> "person"]]

\* tag, untag: c is prepareConversation(conversation) as it was on entry, and
\* Object.assign(c, object) makes target and object the same object
TagParams(verb, c, object) ==
  LET both == Assign(c, object)
  IN  [verb |-> verb, target |-> both, object |-> both]

\* isArray(keys) ? keys[0] : keys
FirstKey(keys) == IF Has(keys, "list") THEN keys.list[1] ELSE keys

\* the params were the instruction always the create of a new key resource
UpdateKeyParamsAlwaysCreate(c, k) ==
  [verb |-> "updateKey",
   target |-> prepareConversation(c),
   object |-> [defaultActivityEncryptionKeyUrl |-> k.uri, objectType |-> "conversation"],
   kmsMessage |->
     [method |-> "create", uri |-> "/resources",
      userIds |-> [i \in DOMAIN c.participants.items |-> c.participants.items[i].id],
      keyUris |-> <<k.uri>>]]

\* the params _updateKey hands to prepare for conversation c and key k
UpdateKeyParams(c, k) ==
  [verb |-> "updateKey",
   target |-> prepareConversation(c),
   object |-> [defaultActivityEncryptionKeyUrl |-> k.uri, objectType |-> "conversation"],
   kmsMessage |->
     IF Truthy(c, "defaultActivityEncryptionKeyUrl")
       THEN [method |-> "update", resourceUri |-> "<KRO>", uri |-> k.uri]
       ELSE [method |-> "create", uri |-> "/resources",
             userIds |-> [i \in DOMAIN c.participants.items |-> c.participants.items[i].id],
             keyUris |-> <<k.uri>>]]

\* the params of an operation that needs nothing but its arguments
DirectParams(call) ==
  CASE call.op = "post"        -> PostParams(call.conversation, call.arg)
    [] call.op = "acknowledge" -> AcknowledgeParams(call.conversation, call.arg)
    [] call.op = "delete"      -> DeleteParams(call.conversation, call.arg)
    [] call.op = "update"      -> UpdateParams(call.conversation, call.arg)
    [] call.op \in {"tag", "untag"} -> TagParams(call.op, call.c, call.arg)

\* the operation were the submission issued before prepare's verdict is looked at
PreparedAfterSubmitting(call, params, tempId, events) ==
  LET done == PrepareThenSubmitUnchecked(call.activity, params, tempId)
  IN  (IF done[1].ok THEN [pc |-> "submitting"] ELSE Rejected([error |-> done[1].error]))
        @@ [log |-> call.log \o events \o done]

\* .then((a) => this.submit(a)) after prepare: the fields of the call
Prepared(call, params, tempId, events) ==
  LET done == PrepareThenSubmit(call.activity, params, tempId)
  IN  (IF done[1].ok THEN [pc |-> "submitting"] ELSE Rejected([error |-> done[1].error]))
        @@ [log |-> call.log \o events \o done]

\* what follows _inferConversationUrl(conversation): prepare and submit, or the
\* request the operation needs first
AfterInfer(call, tempId, events) ==
  CASE call.op \in ObjectOps \cup {"post"} ->
         Prepared(call, DirectParams(call), tempId, events)
    [] call.op = "add" ->
         [pc |-> "identity",
          log |-> call.log \o events \o <<Request("asUUID", [ref |-> call.arg, create |-> TRUE])>>]
    [] call.op = "leave" ->
         [pc |-> "identity",
          log |-> call.log \o events
                    \o <<Request("asUUID", [ref |-> IF call.arg = "" THEN UserId ELSE call.arg])>>]
    [] call.op = "updateKey" ->
         [pc |-> "getting",
          log |-> call.log \o events
                    \o <<Request("get", Pick(call.conversation, {"url"})
                                          @@ [qs |-> [uuidEntryFormat |-> TRUE,
                                                      personRefresh |-> TRUE,
                                                      activitiesLimit |-> 0,
                                                      includeParticipants |-> TRUE]])>>]

\* whether a step of the call drew a clientTempId
Drew(call, fields) ==
  Cardinality({i \in DOMAIN fields.log : fields.log[i].kind = "prepared"})
    - Cardinality({i \in DOMAIN call.log : call.log[i].kind = "prepared"})

\* the test were it made of the id alone
NeedsInferenceWhateverUrl(conversation) == Truthy(conversation, "id")

\* !conversation.url && conversation.id
NeedsInference(conversation) == ~Truthy(conversation, "url") /\ Truthy(conversation, "id")

\* the url were the id left out of it
InferredUrlWithoutId(conversation) == <<ServiceUrl, "conversations">>

\* conversation.url = `${url}/conversations/${conversation.id}`
InferredUrl(conversation) == <<ServiceUrl, "conversations", conversation.id>>

\* Promise.all([_inferConversationUrl(conversation), moderator ? asUUID(moderator)
\* : userId]): both requests are issued at once and the chain waits for both
ModerationEntry(call, tempId) ==
  LET infer    == NeedsInference(call.conversation)
      resolve  == call.arg # ""
      requests == (IF infer THEN <<Request("getServiceUrl", Obj0)>> ELSE <<>>)
                    \o (IF resolve THEN <<Request("asUUID", [ref |-> call.arg])>> ELSE <<>>)
  IN  IF requests = <<>>
        THEN Prepared(call, ModerationParams(call.op, call.conversation, UserId), tempId, <<>>)
        ELSE [pc |-> "moderating",
              waiting |-> {requests[i].what : i \in DOMAIN requests},
              userId |-> UserId,
              log |-> requests]

\* the entry of an operation: if (!isObject(object)) reject, then
\* _inferConversationUrl(conversation) and what follows it
OperationEntry(call, tempId) ==
  IF call.op \in ObjectOps /\ ~IsObject(call.arg)
    THEN Rejected([error |-> "object must be an object"])
    ELSE IF call.op \in ModerationOps
      THEN ModerationEntry(call, tempId)
    ELSE IF NeedsInference(call.conversation)
      THEN [pc |-> "inferring", log |-> <<Request("getServiceUrl", Obj0)>>]
      ELSE AfterInfer(call, tempId, <<>>)

\* the names of the reference objects some operation has been called with
RefsInUse == {calls[q].ref : q \in {q \in Callers : Has(calls[q], "ref")}}

\* the call of caller p with `conversation` as the reference object reads now
Reading(p) == [conversation |-> refs[calls[p].ref]] @@ calls[p]

\* an operation is called with the reference object named ref: a new object
\* `conversation` (named after the caller), or the object an earlier call was given
OperationCall(p, op, ref, conversation, arg, activity) ==
  /\ calls[p].pc = "idle"
  /\ ref = p \/ ref \in RefsInUse
  /\ LET object == IF ref = p THEN conversation ELSE refs[ref]
         call == [op |-> op, ref |-> ref, conversation |-> object, arg |-> arg,
                  activity |-> activity, c |-> prepareConversation(object)] @@ calls[p]
         next == OperationEntry(call, FreshUuid(uuids)) @@ call
     IN  /\ Becomes(p, next)
         /\ uuids' = uuids + Drew(call, next)
         /\ refs' = [refs EXCEPT ![ref] = object]
  /\ UNCHANGED <<prep, server, listing, team>>

\* an argument the caller leaves out
Undefined == [str |-> ""]

\* the conversation references, partial activities and arguments callers pass
ConversationRefs ==
  { Obj0,
    [id |-> "c9"],
    [url |-> SampleUrl],
    [id |-> "c9", url |-> SampleUrl],
    [id |-> "c9", defaultActivityEncryptionKeyUrl |-> "k-old",
     kmsResourceObjectUrl |-> "kro-old"] }

OperationActivities ==
  { Obj0,
    [clientTempId |-> [caller |-> "t1"]],
    [kmsMessage |-> [method |-> "create", uri |-> "/resources", userIds |-> <<"u0">>,
                     keyUris |-> <<"k0">>]],
    [actor |-> [str |-> "bob"]],
    [actor |-> [id |-> "bob"]],
    [object |-> [content |-> "<b>x</b>"]] }

ObjectArgs ==
  { [str |-> "a7"],
    Obj0,
    [id |-> "a7", objectType |-> "comment"],
    [url |-> <<ServiceUrl, "activities", "a7">>],
    [objectType |-> "comment", content |-> "<b>x</b>"],
    [objectType |-> "conversation", displayName |-> "title"],
    [tags |-> <<"LOCKED">>] }

MessageArgs ==
  { [str |-> "hi"],
    [displayName |-> "hi", content |-> "<b>hi</b>"],
    [content |-> "<b>hi</b>"],
    [displayName |-> "hi", objectType |-> ""] }

KeyArgs ==
  { Undefined, [uri |-> "k1"], [list |-> <<[uri |-> "k1"], [uri |-> "k2"]>>] }

OperationArgs(op) ==
  CASE op \in ObjectOps  -> ObjectArgs
    [] op = "post"       -> MessageArgs
    [] op = "add"        -> {"u1", "bob@example.com"}
    [] op = "leave"      -> {"", "u1", "bob@example.com"}
    [] op \in ModerationOps -> {"", "u1", "bob@example.com"}
    [] op = "updateKey"  -> KeyArgs

Operation(p) ==
  /\ calls[p].pc = "idle"
  /\ \E op \in ActivityOps, conversation \in ConversationRefs,
        activity \in OperationActivities :
       \E arg \in OperationArgs(op) : OperationCall(p, op, p, conversation, arg, activity)

\* getServiceUrl resolved: the url is written onto the reference object
InferResolved(p) ==
  /\ calls[p].pc = "inferring"
  /\ LET object == refs[calls[p].ref]
         call == [conversation |-> Set(object, "url", InferredUrl(object))] @@ calls[p]
         next == AfterInfer(call, FreshUuid(uuids), <<Response("getServiceUrl", [ok |-> TRUE])>>)
     IN  /\ Becomes(p, next @@ call)
         /\ uuids' = uuids + Drew(call, next @@ call)
         /\ refs' = [refs EXCEPT ![calls[p].ref] = call.conversation]
  /\ UNCHANGED <<prep, server, listing, team>>

InferRejected(p) ==
  /\ calls[p].pc = "inferring"
  /\ Becomes(p, Rejected([error |-> "getServiceUrl failed"])
                  @@ [log |-> Logged(p, <<Response("getServiceUrl", [ok |-> FALSE])>>)])
  /\ UNCHANGED <<prep, uuids, server, refs, listing, team>>

\* add, leave: asUUID resolved with the participant's identifier
IdentityResolved(p) ==
  /\ calls[p].op \in IdentityOps /\ calls[p].pc = "identity"
  /\ LET call == Reading(p)
         id   == asUUID(call.log[Len(call.log)].ref)
         next == Prepared(call,
                          IF call.op = "add" THEN AddParams(call.conversation, id)
                                             ELSE LeaveParams(call.conversation, id),
                          FreshUuid(uuids),
                          <<Response("asUUID", [statusCode |-> 200])>>)
     IN  Becomes(p, next @@ call)
  /\ uuids' = uuids + 1
  /\ UNCHANGED <<prep, server, refs, listing, team>>

IdentityRejected(p) ==
  /\ calls[p].op \in IdentityOps /\ calls[p].pc = "identity"
  /\ \E status \in FailStatuses :
       Becomes(p, Rejected([statusCode |-> status])
                    @@ [log |-> Logged(p, <<Response("asUUID", [statusCode |-> status])>>)])
  /\ UNCHANGED <<prep, uuids, server, refs, listing, team>>

\* one of the two promises of a moderation change resolved: .then(([c, userId])
\* => this.prepare(...)) runs once neither is awaited any more
ModerationSettled(p, what, conversation, userId, events) ==
  LET call == [conversation |-> conversation, userId |-> userId,
               waiting |-> calls[p].waiting \ {what}] @@ calls[p]
      next == IF call.waiting = {}
                THEN Prepared(call, ModerationParams(call.op, conversation, userId),
                              FreshUuid(uuids), events)
                ELSE [log |-> call.log \o events]
  IN  /\ Becomes(p, next @@ call)
      /\ uuids' = uuids + Drew(call, next @@ call)
      /\ refs' = [refs EXCEPT ![calls[p].ref] = conversation]

ModerationInferResolved(p) ==
  /\ calls[p].pc = "moderating" /\ "getServiceUrl" \in calls[p].waiting
  /\ LET object == refs[calls[p].ref]
     IN  ModerationSettled(p, "getServiceUrl", Set(object, "url", InferredUrl(object)),
                           calls[p].userId, <<Response("getServiceUrl", [ok |-> TRUE])>>)
  /\ UNCHANGED <<prep, server, listing, team>>

ModerationIdentityResolved(p) ==
  /\ calls[p].pc = "moderating" /\ "asUUID" \in calls[p].waiting
  /\ ModerationSettled(p, "asUUID", refs[calls[p].ref], asUUID(calls[p].arg),
                       <<Response("asUUID", [statusCode |-> 200])>>)
  /\ UNCHANGED <<prep, server, listing, team>>

\* Promise.all rejects with the first rejection
ModerationInferRejected(p) ==
  /\ calls[p].pc = "moderating" /\ "getServiceUrl" \in calls[p].waiting
  /\ Becomes(p, Rejected([error |-> "getServiceUrl failed"])
                  @@ [log |-> Logged(p, <<Response("getServiceUrl", [ok |-> FALSE])>>)])
  /\ UNCHANGED <<prep, uuids, server, refs, listing, team>>

ModerationIdentityRejected(p) ==
  /\ calls[p].pc = "moderating" /\ "asUUID" \in calls[p].waiting
  /\ \E status \in FailStatuses :
       Becomes(p, Rejected([statusCode |-> status])
                    @@ [log |-> Logged(p, <<Response("asUUID", [statusCode |-> status])>>)])
  /\ UNCHANGED <<prep, uuids, server, refs, listing, team>>

\* what the service reports for the conversation updateKey fetches
GetBodies(conversation) ==
  { [id |-> LastSegment(conversation.url), url |-> conversation.url,
     objectType |-> "conversation",
     participants |-> [items |-> <<[id |-> UserId, objectType |-> "person"],
                                   [id |-> "u1", objectType |-> "person"]>>]] @@ k :
      k \in {Obj0, [defaultActivityEncryptionKeyUrl |-> "k-server",
                    kmsResourceObjectUrl |-> "kro-server"]} }

\* _updateKey were it handed the caller's reference filled up from the response
GetSucceededOntoReference(p) ==
  /\ calls[p].op = "updateKey" /\ calls[p].pc = "getting"
  /\ Truthy(Reading(p).conversation, "url")
  /\ \E c \in GetBodies(Reading(p).conversation) :
       LET stale  == Defaults(Reading(p).conversation, c)
           call   == [fetched |-> stale] @@ Reading(p)
           events == <<Response("get", [statusCode |-> 200, body |-> c])>>
           next   == IF call.arg # Undefined
                       THEN Prepared(call, UpdateKeyParams(stale, FirstKey(call.arg)),
                                     FreshUuid(uuids), events)
                       ELSE [pc |-> "minting",
                             log |-> call.log \o events
                                       \o <<Request("createUnboundKeys", [count |-> 1])>>]
       IN  /\ Becomes(p, next @@ call)
           /\ uuids' = uuids + Drew(call, next @@ call)
  /\ UNCHANGED <<prep, server, refs, listing, team>>

\* updateKey: the conversation is fetched; _updateKey uses the key given, or
\* asks the KMS for one
GetSucceeded(p) ==
  /\ calls[p].op = "updateKey" /\ calls[p].pc = "getting"
  /\ Truthy(Reading(p).conversation, "url")
  /\ \E c \in GetBodies(Reading(p).conversation) :
       LET call   == [fetched |-> c] @@ Reading(p)
           events == <<Response("get", [statusCode |-> 200, body |-> c])>>
           next   == IF call.arg # Undefined
                       THEN Prepared(call, UpdateKeyParams(c, FirstKey(call.arg)),
                                     FreshUuid(uuids), events)
                       ELSE [pc |-> "minting",
                             log |-> call.log \o events
                                       \o <<Request("createUnboundKeys", [count |-> 1])>>]
       IN  /\ Becomes(p, next @@ call)
           /\ uuids' = uuids + Drew(call, next @@ call)
  /\ UNCHANGED <<prep, server, refs, listing, team>>

GetFailed(p) ==
  /\ calls[p].op = "updateKey" /\ calls[p].pc = "getting"
  /\ \E status \in FailStatuses :
       Becomes(p, Rejected([statusCode |-> status])
                    @@ [log |-> Logged(p, <<Response("get", [statusCode |-> status])>>)])
  /\ UNCHANGED <<prep, uuids, server, refs, listing, team>>

\* what createUnboundKeys({count: 1}) resolves with: a key, or a collection
MintedKeys ==
  { [uri |-> "k-new"], [list |-> <<[uri |-> "k-new"], [uri |-> "k-extra"]>>] }

MintResolved(p) ==
  /\ calls[p].op = "updateKey" /\ calls[p].pc = "minting"
  /\ \E keys \in MintedKeys :
       Becomes(p, Prepared(calls[p], UpdateKeyParams(calls[p].fetched, FirstKey(keys)),
                           FreshUuid(uuids),
                           <<Response("createUnboundKeys", [ok |-> TRUE, keys |-> keys])>>))
  /\ uuids' = uuids + 1
  /\ UNCHANGED <<prep, server, refs, listing, team>>

\* the rejection were it caught and a key asked for once more
MintRejectedThenRetried(p) ==
  /\ calls[p].op = "updateKey" /\ calls[p].pc = "minting"
  /\ \E status \in FailStatuses :
       Becomes(p, (IF Cardinality(RequestsOf(p, "createUnboundKeys")) < 2
                     THEN [pc |-> "minting"] ELSE Rejected([statusCode |-> status]))
                  @@ [log |-> Logged(p, <<Response("createUnboundKeys",
                                                   [ok |-> FALSE, statusCode |-> status])>>
                                        \o (IF Cardinality(RequestsOf(p, "createUnboundKeys")) < 2
                                              THEN <<Request("createUnboundKeys", [count |-> 1])>>
                                              ELSE <<>>))])
  /\ UNCHANGED <<prep, uuids, server, refs, listing, team>>

MintRejected(p) ==
  /\ calls[p].op = "updateKey" /\ calls[p].pc = "minting"
  /\ \E status \in FailStatuses :
       Becomes(p, Rejected([statusCode |-> status])
                    @@ [log |-> Logged(p, <<Response("createUnboundKeys",
                                                     [ok |-> FALSE, statusCode |-> status])>>)])
  /\ UNCHANGED <<prep, uuids, server, refs, listing, team>>

\* submit: .then((res) => res.body)
SubmitSucceeded(p) ==
  /\ calls[p].op \in ActivityOps /\ calls[p].pc = "submitting"
  /\ LET activity == ActivityBody(calls[p].log[Len(calls[p].log)].body)
     IN  Becomes(p, [pc |-> "resolved", result |-> activity,
                     log |-> Logged(p, <<Response("submit", [statusCode |-> 200,
                                                             body |-> activity])>>)])
  /\ UNCHANGED <<prep, uuids, server, refs, listing, team>>

\* the rejection were it answered with the same request once more
SubmitFailedThenResubmitted(p) ==
  /\ calls[p].op \in ActivityOps /\ calls[p].pc = "submitting"
  /\ \E status \in FailStatuses :
       IF Cardinality(RequestsOf(p, "submit")) < 2
         THEN Becomes(p, [log |-> Logged(p, <<Response("submit", [statusCode |-> status]),
                                             calls[p].log[Len(calls[p].log)]>>)])
         ELSE Becomes(p, Rejected([statusCode |-> status])
                           @@ [log |-> Logged(p, <<Response("submit", [statusCode |-> status])>>)])
  /\ UNCHANGED <<prep, uuids, server, refs, listing, team>>

SubmitFailed(p) ==
  /\ calls[p].op \in ActivityOps /\ calls[p].pc = "submitting"
  /\ \E status \in FailStatuses :
       Becomes(p, Rejected([statusCode |-> status])
                    @@ [log |-> Logged(p, <<Response("submit", [statusCode |-> status])>>)])
  /\ UNCHANGED <<prep, uuids, server, refs, listing, team>>

\* ------------------------------------------------------------ list

\* the most items a list response carries, and the latest published value
MaxItems == 3

MaxPublished == 3

ListMethods == {"list", "listLeft", "listActivities", "listMentions"}

\* the options callers pass to the list methods
ListOptions == {Obj0, [conversationId |-> "c9"]}

\* list, listLeft, listActivities, listMentions and _listActivities: the
\* descriptor handed to _list
ListDescriptor(method, options) ==
  [service |-> "conversation",
   resource |-> CASE method = "list"           -> "conversations"
                  [] method = "listLeft"       -> "conversations/left"
                  [] method = "listActivities" -> "activities"
                  [] method = "listMentions"   -> "mentions",
   qs |-> options]

\* options.qs = Object.assign({...}, options.qs)
ListQs(qs) ==
  Assign([personRefresh |-> TRUE, uuidEntryFormat |-> TRUE, activitiesLimit |-> 0,
          participantsLimit |-> 0], qs)

\* items.reverse()
Reverse(items) == [i \in 1..Len(items) |-> items[Len(items) + 1 - i]]

\* the then-block were the items returned as they came
ListThenAsReceived(res) ==
  IF ~Has(res, "body") \/ ~Has(res.body, "items") THEN <<>> ELSE res.body.items

\* the then-block of _list up to Promise.all: empty without items, else the
\* items, reversed when the last was published before the first
ListThen(res) ==
  IF ~Has(res, "body") \/ ~Has(res.body, "items") \/ Len(res.body.items) = 0
    THEN <<>>
    ELSE IF res.body.items[Len(res.body.items)].published < res.body.items[1].published
      THEN Reverse(res.body.items)
      ELSE res.body.items

\* the items of a response: the n-th item as the service sent it, with its
\* published value and with or without participants
ListItems ==
  UNION { { [i \in 1..n |-> [sent |-> i, published |-> pub[i]]
                              @@ (IF i \in with
                                    THEN [participants |-> [items |-> <<[id |-> "u1"]>>]]
                                    ELSE Obj0)] :
              pub \in [1..n -> 1..MaxPublished], with \in SUBSET (1..n) } :
          n \in 0..MaxItems }

\* the responses to a list request
ListResponses ==
  {[statusCode |-> 200], [statusCode |-> 200, body |-> Obj0]}
    \cup {[statusCode |-> 200, body |-> [items |-> items]] : items \in ListItems}

\* !conversation.participants || !conversation.participants.items
RecordsNothing(item) == ~Has(item, "participants") \/ ~Has(item.participants, "items")

\* a list method is called
InitList ==
  /\ \E method \in ListMethods, options \in ListOptions :
       listing = [at |-> "called", method |-> method, options |-> options]
  /\ prep = NoPrepare
  /\ uuids = 0
  /\ calls = [p \in Callers |-> NoCall]
  /\ server = {}
  /\ refs = NoRefs
  /\ team = NoTeam

\* _list: the query defaults are filled in and the request is issued
ListRequest ==
  /\ listing.at = "called"
  /\ listing' = [at |-> "requested",
                 request |-> [qs |-> ListQs(listing.options)]
                               @@ ListDescriptor(listing.method, listing.options)]
                  @@ listing
  /\ UNCHANGED <<prep, uuids, calls, server, refs, team>>

\* the response arrives: the then-block runs up to Promise.all over
\* items.map(_recordUUIDs), which starts the recording of every item; the
\* recordings of the items that have participants are awaited
ListResponded ==
  /\ listing.at = "requested"
  /\ \E res \in ListResponses :
       LET items   == ListThen(res)
           pending == {i \in DOMAIN items : ~RecordsNothing(items[i])}
       IN  listing' = (IF pending = {}
                         THEN [at |-> "done", ok |-> TRUE, result |-> items]
                         ELSE [at |-> "recording"])
                      @@ [res |-> res, items |-> items, started |-> DOMAIN items,
                          awaited |-> pending, pending |-> pending]
                      @@ listing
  /\ UNCHANGED <<prep, uuids, calls, server, refs, team>>

\* the request is rejected
ListFailed ==
  /\ listing.at = "requested"
  /\ \E status \in FailStatuses :
       listing' = [at |-> "done", ok |-> FALSE, reason |-> [statusCode |-> status]] @@ listing
  /\ UNCHANGED <<prep, uuids, calls, server, refs, team>>

\* Promise.all were it to resolve with the first recording that completes
ListRecordedEarly ==
  /\ listing.at = "recording"
  /\ \E i \in listing.pending :
       listing' = [at |-> "done", ok |-> TRUE, result |-> listing.items,
                   pending |-> listing.pending \ {i}] @@ listing
  /\ UNCHANGED <<prep, uuids, calls, server, refs, team>>

\* the recording of one item completes; once none is pending: .then(() => items)
ListRecorded ==
  /\ listing.at = "recording"
  /\ \E i \in listing.pending :
       listing' = (IF listing.pending = {i}
                     THEN [at |-> "done", ok |-> TRUE, result |-> listing.items]
                     ELSE Obj0)
                  @@ [pending |-> listing.pending \ {i}] @@ listing
  /\ UNCHANGED <<prep, uuids, calls, server, refs, team>>

\* a recordUUID rejected: Promise.all rejects, whatever is still pending
ListRecordFailed ==
  /\ listing.at = "recording"
  /\ \E i \in listing.pending :
       listing' = [at |-> "done", ok |-> FALSE, reason |-> [error |-> "recordUUID failed"],
                   pending |-> listing.pending \ {i}] @@ listing
  /\ UNCHANGED <<prep, uuids, calls, server, refs, team>>

NextList == ListRequest \/ ListResponded \/ ListFailed \/ ListRecorded \/ ListRecordFailed

SpecList == InitList /\ [][NextList]_vars

\* ------------------------------------------------------------ encryptTeam

\* how many encryptTeam calls a run makes on the team
MaxEncrypts == 2

\* the transforms that may be in flight on the team at the same time
TeamCallers == {1, 2}

\* what reading a property an object lacks yields
NoUri == "undefined"

\* the keys a caller passes: a key, the uri of a key, or a collection of keys
SuppliedKeys ==
  { [uri |-> "k1"], [uri |-> "k2"], [str |-> "k1"],
    [list |-> <<[uri |-> "k1"], [uri |-> "k2"]>>], [list |-> <<>>] }

\* the key argument: false, a key, or none
TeamKeyArgs ==
  {[given |-> "false"], [given |-> "none"]}
    \cup {[given |-> "key", key |-> k] : k \in SuppliedKeys}

\* the teams the transform is handed
TeamInputs ==
  { m @@ d :
      m \in Opt("kmsMessage",
                { [method |-> "create", uri |-> "/resources"],
                  [method |-> "create", uri |-> "/resources", keyUris |-> <<>>],
                  [method |-> "create", uri |-> "/resources", keyUris |-> <<"k1">>] }),
      d \in Opt("defaultActivityEncryptionKeyUrl", {"k-old"}) }

\* what createUnboundKeys({count: 1}) resolves with for a team
TeamMintedKeys == MintedKeys \cup {[uri |-> "k-newer"]}

\* k.uri
KeyUri(k) == IF Has(k, "uri") THEN k.uri ELSE NoUri

\* k.uri || k
KeyUriOrKey(k) == IF Truthy(k, "uri") THEN k.uri ELSE k.str

\* if (team.kmsMessage && team.kmsMessage.keyUris && !...includes(k.uri)) push(k.uri)
TrackKeyUri(t, k) ==
  IF /\ Has(t, "kmsMessage") /\ Has(t.kmsMessage, "keyUris")
     /\ KeyUri(k) \notin Range(t.kmsMessage.keyUris)
    THEN Set(t, "kmsMessage",
             Set(t.kmsMessage, "keyUris", Append(t.kmsMessage.keyUris, KeyUri(k))))
    ELSE t

\* the default key url were it taken from the key whatever the team carries
DefaultKeyUrlOverwriting(t, k) == KeyUriOrKey(k)

\* team.defaultActivityEncryptionKeyUrl = team.defaultActivityEncryptionKeyUrl || k.uri || k
DefaultKeyUrl(t, k) ==
  IF Truthy(t, "defaultActivityEncryptionKeyUrl")
    THEN t.defaultActivityEncryptionKeyUrl
    ELSE KeyUriOrKey(k)

\* team.encryptionKeyUrl = k.uri || k; if (!key) team.defaultActivityEncryptionKeyUrl = ...
BindKey(t, k, supplied) ==
  LET bound == Set(t, "encryptionKeyUrl", KeyUriOrKey(k))
  IN  IF supplied
        THEN bound
        ELSE Set(bound, "defaultActivityEncryptionKeyUrl", DefaultKeyUrl(t, k))

\* no transform in flight for the caller, and how its last one ended
IdleTransform(last) == [pc |-> "idle", last |-> last]

\* a team is about to be sent
InitTeam ==
  /\ \E t \in TeamInputs :
       team = [at |-> "in use", object |-> t, bound |-> <<>>, made |-> 0,
               ops |-> [p \in TeamCallers |-> IdleTransform("none")]]
  /\ prep = NoPrepare
  /\ uuids = 0
  /\ calls = [p \in Callers |-> NoCall]
  /\ server = {}
  /\ refs = NoRefs
  /\ listing = NoList

TeamBecomes(p, op) == team' = [team EXCEPT !.ops[p] = op]

\* fn(ctx, key, team): key === false resolves at once, a key is passed on, and
\* with no key one is asked of the KMS
EncryptTeam(p) ==
  /\ team.ops[p].pc = "idle"
  /\ team.made < MaxEncrypts
  /\ \E arg \in TeamKeyArgs :
       team' = [team EXCEPT
                  !.made = @ + 1,
                  !.ops[p] = CASE arg.given = "false" -> IdleTransform("resolved")
                               [] arg.given = "key" ->
                                    [pc |-> "keyed", supplied |-> TRUE, keys |-> arg.key]
                               [] OTHER -> [pc |-> "minting", supplied |-> FALSE]]
  /\ UNCHANGED <<prep, uuids, calls, server, refs, listing>>

TeamMintResolved(p) ==
  /\ team.ops[p].pc = "minting"
  /\ \E keys \in TeamMintedKeys :
       TeamBecomes(p, [pc |-> "keyed", supplied |-> FALSE, keys |-> keys])
  /\ UNCHANGED <<prep, uuids, calls, server, refs, listing>>

TeamMintRejected(p) ==
  /\ team.ops[p].pc = "minting"
  /\ TeamBecomes(p, IdleTransform("rejected"))
  /\ UNCHANGED <<prep, uuids, calls, server, refs, listing>>

\* .then((keys) => { ... }): the first key is taken, its uri tracked, and the
\* two props handed to their transforms; keys[0] of an empty collection has no uri
TeamKeyed(p) ==
  /\ team.ops[p].pc = "keyed"
  /\ LET op == team.ops[p]
     IN  IF Has(op.keys, "list") /\ op.keys.list = <<>>
           THEN TeamBecomes(p, IdleTransform("rejected"))
           ELSE team' = [team EXCEPT
                           !.object = TrackKeyUri(@, FirstKey(op.keys)),
                           !.ops[p] = [pc |-> "encrypting", supplied |-> op.supplied,
                                       k |-> FirstKey(op.keys)]]
  /\ UNCHANGED <<prep, uuids, calls, server, refs, listing>>

\* both props are encrypted: .then(() => { team.encryptionKeyUrl = ... })
TeamEncrypted(p) ==
  /\ team.ops[p].pc = "encrypting"
  /\ team' = [team EXCEPT
                !.object = BindKey(@, team.ops[p].k, team.ops[p].supplied),
                !.bound = Append(@, KeyUriOrKey(team.ops[p].k)),
                !.ops[p] = IdleTransform("resolved")]
  /\ UNCHANGED <<prep, uuids, calls, server, refs, listing>>

\* a prop transform rejects: Promise.all rejects
TeamEncryptFailed(p) ==
  /\ team.ops[p].pc = "encrypting"
  /\ TeamBecomes(p, IdleTransform("rejected"))
  /\ UNCHANGED <<prep, uuids, calls, server, refs, listing>>

NextTeam ==
  \E p \in TeamCallers :
    \/ EncryptTeam(p)
    \/ TeamMintResolved(p)
    \/ TeamMintRejected(p)
    \/ TeamKeyed(p)
    \/ TeamEncrypted(p)
    \/ TeamEncryptFailed(p)

SpecTeam == InitTeam /\ [][NextTeam]_vars

\* ------------------------------------------------------------ specifications

Init ==
  /\ prep = NoPrepare
  /\ uuids = 0
  /\ calls = [p \in Callers |-> NoCall]
  /\ server \in SUBSET {OldConversation}
  /\ refs = NoRefs
  /\ team = NoTeam
  /\ listing = NoList

\* one client, one operation in flight
Next ==
  \E p \in {1} :
    \/ Create(p)
    \/ CreateIdentityRejected(p)
    \/ CreateEntersOneOnOne(p)
    \/ CreateEntersGrouped(p)
    \/ LookupIdentityResolved(p)
    \/ LookupIdentityRejected(p)
    \/ LookupFound(p)
    \/ LookupNotFound(p)
    \/ LookupFailed(p)
    \/ PostSucceeded(p)
    \/ PostFailed(p)
    \/ CreationSucceeded(p)
    \/ CreationFailed(p)
    \/ ShareHookRejected(p)
    \/ ShareHookResolved(p)
    \/ ShareSucceeded(p)
    \/ ShareFailed(p)
    \/ Operation(p)
    \/ InferResolved(p)
    \/ InferRejected(p)
    \/ IdentityResolved(p)
    \/ IdentityRejected(p)
    \/ ModerationInferResolved(p)
    \/ ModerationIdentityResolved(p)
    \/ ModerationInferRejected(p)
    \/ ModerationIdentityRejected(p)
    \/ GetSucceeded(p)
    \/ GetFailed(p)
    \/ MintResolved(p)
    \/ MintRejected(p)
    \/ SubmitSucceeded(p)
    \/ SubmitFailed(p)

Spec == Init /\ [][Next]_vars

\* the create calls that name one other party
TwoPartyParams ==
  { a @@ b @@ c :
      a \in {[participants |-> <<"u1">>], [participants |-> <<"bob@example.com">>]},
      b \in Opt("comment", {"hello"}),
      c \in Opt("files", {<<"file1">>}) }

TwoPartyCreate(p) ==
  /\ calls[p].pc = "idle"
  /\ \E params \in TwoPartyParams, options \in CreateOptions : CreateCall(p, params, options)

\* one client making one two-party create call
NextCreate ==
  \E p \in {1} :
    \/ TwoPartyCreate(p)
    \/ CreateIdentityRejected(p)
    \/ CreateEntersOneOnOne(p)
    \/ CreateEntersGrouped(p)
    \/ LookupIdentityResolved(p)
    \/ LookupIdentityRejected(p)
    \/ LookupFound(p)
    \/ LookupNotFound(p)
    \/ LookupFailed(p)
    \/ PostSucceeded(p)
    \/ PostFailed(p)
    \/ CreationSucceeded(p)
    \/ CreationFailed(p)
    \/ ShareHookRejected(p)
    \/ ShareHookResolved(p)
    \/ ShareSucceeded(p)
    \/ ShareFailed(p)

\* every collaborator request is eventually answered: a step of the call that
\* is possible is eventually taken
SpecLive == Init /\ [][NextCreate]_vars /\ WF_vars(NextCreate)

\* concurrent create calls of one client for the same pair: two-party, not
\* forced to be grouped, without files
RaceParams ==
  { [participants |-> <<"u1">>],
    [participants |-> <<"bob@example.com">>, comment |-> "hello"] }

RaceCreate(p) ==
  /\ calls[p].pc = "idle"
  /\ \E params \in RaceParams : CreateCall(p, params, Obj0)

NextRace ==
  \E p \in Callers :
    \/ RaceCreate(p)
    \/ CreateIdentityRejected(p)
    \/ CreateEntersOneOnOne(p)
    \/ LookupIdentityResolved(p)
    \/ LookupIdentityRejected(p)
    \/ LookupFound(p)
    \/ LookupNotFound(p)
    \/ LookupFailed(p)
    \/ PostSucceeded(p)
    \/ PostFailed(p)
    \/ CreationSucceeded(p)
    \/ CreationFailed(p)

SpecRace == Init /\ [][NextRace]_vars

\* operations of one client on conversation references it may pass to both of
\* two calls: post and updateKey, in flight together
SharedRefs ==
  { [id |-> "c9"],
    [id |-> "c9", defaultActivityEncryptionKeyUrl |-> "k-old",
     kmsResourceObjectUrl |-> "kro-old"] }

SharedOps == {"post", "updateKey"}

SharedArgs(op) == IF op = "post" THEN {[str |-> "hi"]} ELSE {Undefined, [uri |-> "k1"]}

OperationOnRef(p) ==
  /\ calls[p].pc = "idle"
  /\ \E op \in SharedOps, ref \in Callers, conversation \in SharedRefs :
       \E arg \in SharedArgs(op) : OperationCall(p, op, ref, conversation, arg, Obj0)

\* two calls, every request of which the collaborators answer
NextRefs ==
  \E p \in {1, 2} :
    \/ OperationOnRef(p)
    \/ InferResolved(p)
    \/ GetSucceeded(p)
    \/ MintResolved(p)
    \/ SubmitSucceeded(p)

SpecRefs == Init /\ [][NextRefs]_vars

\* ------------------------------------------------------------ properties of create

LogOf(p) == calls[p].log

\* create calls whose participants have been resolved and deduplicated
ResolvedCreates ==
  {p \in Callers : /\ calls[p].op = "create"
                   /\ \E j \in DOMAIN LogOf(p) :
                        LogOf(p)[j] = Response("asUUID", [statusCode |-> 200])}

\* the get against the other participant rejected with 404 at position j
GetNotFoundAt(p, j) ==
  /\ j \in DOMAIN LogOf(p)
  /\ LogOf(p)[j].kind = "response"
  /\ \/ LogOf(p)[j].what = "lookup"
     \/ LogOf(p)[j].what = "asUUID" /\ Has(LogOf(p)[j], "for")
  /\ LogOf(p)[j].statusCode = NotFound

\* the lookup request was answered with the conversation at position j
LookupFoundAt(p, j) ==
  /\ j \in ResponsesOf(p, "lookup")
  /\ LogOf(p)[j].statusCode = 200

\* positions of the responses to the follow-up comment post
PostResponses(p) ==
  {j \in ResponsesOf(p, "submit") : j > 1 /\ LogOf(p)[j - 1].body.verb = "post"}

\* C1: in the one-on-one path a conversation-creation request is issued only
\* after the get against the other participant failed with status 404, and a
\* failed follow-up post is rejected to the caller with its own status without
\* any creation request being issued.
C1_CreationOnlyAfterLookupNotFound ==
  \A p \in ResolvedCreates :
    (\E i \in RequestsOf(p, "asUUID") : Has(LogOf(p)[i], "for")) =>
      /\ \A i \in RequestsOf(p, "create") : \E j \in 1..(i - 1) : GetNotFoundAt(p, j)
      /\ \A j \in PostResponses(p) :
           LogOf(p)[j].statusCode # 200 =>
             /\ RequestsOf(p, "create") = {}
             /\ calls[p].pc = "rejected"
             /\ calls[p].reason = [statusCode |-> LogOf(p)[j].statusCode]

\* the activity expand builds for the caller with no actor given
ExpectedActivity(verb) ==
  [actor |-> [objectType |-> "person", id |-> UserId], objectType |-> "activity",
   verb |-> verb]

\* the grouped-creation payload of C2, tagged ONE_ON_ONE
ExpectedOneOnOnePayload(params) ==
  [objectType |-> "conversation",
   tags |-> <<"ONE_ON_ONE">>,
   kmsMessage |-> [method |-> "create", uri |-> "/resources",
                   userIds |-> params.participants, keyUris |-> <<>>],
   activities |->
     [items |->
        <<ExpectedActivity("create")>>
        \o [i \in 1..Len(params.participants) |->
              [object |-> [objectType |-> "person", id |-> params.participants[i]]]
                @@ ExpectedActivity("add")]
        \o (IF Has(params, "comment")
              THEN <<[object |-> [objectType |-> "comment", displayName |-> params.comment]]
                       @@ ExpectedActivity("post")>>
              ELSE <<>>)]]

\* C2: once the lookup of a two-party create has failed with 404, exactly one
\* creation request has been issued, after that failure; its payload is the
\* grouped-creation payload (create, one add per participant, a post when there
\* is a comment, kmsMessage create naming all participants) tagged ONE_ON_ONE;
\* and when the service answers it, the resolver resolves with the response body,
\* which is what create returns when no files are to be shared.
C2_NotFoundLookupCreatesTagged ==
  \A p \in ResolvedCreates :
    \A j \in DOMAIN LogOf(p) :
      GetNotFoundAt(p, j) =>
        /\ Cardinality(RequestsOf(p, "create")) = 1
        /\ \A i \in RequestsOf(p, "create") :
             /\ i > j
             /\ LogOf(p)[i].body = ExpectedOneOnOnePayload(calls[p].params)
        /\ \A k \in ResponsesOf(p, "create") :
             LogOf(p)[k].statusCode = 200 =>
               /\ Has(calls[p], "inner")
               /\ calls[p].inner = LogOf(p)[k].body
               /\ ~Has(calls[p].params, "files") =>
                    calls[p].pc = "resolved" /\ calls[p].result = LogOf(p)[k].body

\* a two-party create with a comment whose lookup failed with 404 has resolved
\* with the conversation the service created
C2_Witness ==
  \E p \in ResolvedCreates :
    /\ \E j \in ResponsesOf(p, "lookup") : GetNotFoundAt(p, j)
    /\ Has(calls[p].params, "comment")
    /\ calls[p].pc = "resolved"
    /\ calls[p].result.tags = <<"ONE_ON_ONE">>

\* C3: for a two-party create with a comment whose lookup succeeds, the comment
\* is posted exactly once to the found conversation, no creation request is
\* issued, and once the post has succeeded the conversation returned carries its
\* original activities followed by the posted comment activity.
C3_FoundLookupPostsAndAppends ==
  \A p \in ResolvedCreates :
    \A j \in DOMAIN LogOf(p) :
      LookupFoundAt(p, j) /\ Has(calls[p].params, "comment") =>
        /\ Cardinality({i \in RequestsOf(p, "submit") :
                          /\ LogOf(p)[i].body.verb = "post"
                          /\ LogOf(p)[i].body.target.id = LogOf(p)[j].body.id}) = 1
        /\ RequestsOf(p, "create") = {}
        /\ \A k \in PostResponses(p) :
             LogOf(p)[k].statusCode = 200 =>
               /\ Has(calls[p], "inner")
               /\ calls[p].inner.activities.items
                    = Append(LogOf(p)[j].body.activities.items, LogOf(p)[k].body)

\* a create whose lookup succeeded and whose follow-up post was rejected with
\* status 404 goes on to issue a creation request
C1_Witness ==
  \E p \in ResolvedCreates :
    /\ \E j \in PostResponses(p) : LogOf(p)[j].statusCode = NotFound
    /\ RequestsOf(p, "create") # {}

\* a create with a comment has found the conversation and had its post answered
C3_Witness ==
  \E p \in ResolvedCreates :
    /\ \E j \in DOMAIN LogOf(p) : LookupFoundAt(p, j)
    /\ \E k \in PostResponses(p) : LogOf(p)[k].statusCode = 200
    /\ calls[p].pc = "rejected"

\* the requests get issues to resolve the user it is asked about
GetIdentityRequests(p) ==
  {i \in RequestsOf(p, "asUUID") : Has(LogOf(p)[i], "for")}

\* C4: of two create calls in flight for the same pair, each one whose lookup
\* failed with 404 issues a creation request of its own, tagged ONE_ON_ONE; on a
\* service that is idempotent by participant pair any two such calls that
\* complete do so with the same conversation, and the service never holds more
\* than one one-on-one conversation for a pair.
C4_ConcurrentCreatesConverge ==
  /\ \A p \in ResolvedCreates :
       (\E j \in ResponsesOf(p, "lookup") : GetNotFoundAt(p, j)) =>
         /\ Cardinality(RequestsOf(p, "create")) = 1
         /\ \A i \in RequestsOf(p, "create") :
              /\ Has(LogOf(p)[i].body, "tags")
              /\ LogOf(p)[i].body.tags = <<"ONE_ON_ONE">>
  /\ \A p, q \in ResolvedCreates :
       /\ calls[p].pc = "resolved" /\ calls[q].pc = "resolved"
       /\ Range(calls[p].params.participants) = Range(calls[q].params.participants)
       => calls[p].result.id = calls[q].result.id
  /\ \A c, d \in server :
       c.tags = <<"ONE_ON_ONE">> /\ d.tags = c.tags /\ c.participants = d.participants
         => c = d

\* two callers both had their lookup fail with 404 and both creates completed
C4_Witness ==
  /\ Cardinality(ResolvedCreates) = NumCallers
  /\ \A p \in Callers :
       /\ \E j \in ResponsesOf(p, "lookup") : GetNotFoundAt(p, j)
       /\ calls[p].pc = "resolved"

\* C5: once the participants of a create are resolved, get is called (the
\* resolver is entered) exactly when the deduplicated list has two entries and
\* options.forceGrouped is not set; in every other case no lookup request is
\* issued and the one creation request carries the untagged grouped payload.
C5_ResolverEnteredIffTwoAndNotForced ==
  \A p \in ResolvedCreates :
    LET twoParty == Len(calls[p].params.participants) = 2
        forced   == /\ "forceGrouped" \in DOMAIN calls[p].options
                    /\ calls[p].options.forceGrouped
    IN  /\ (GetIdentityRequests(p) # {}) <=> (twoParty /\ ~forced)
        /\ ~(twoParty /\ ~forced) =>
             /\ RequestsOf(p, "lookup") = {}
             /\ Cardinality(RequestsOf(p, "create")) = 1
             /\ \A i \in RequestsOf(p, "create") :
                  /\ ~Has(LogOf(p)[i].body, "tags")
                  /\ LogOf(p)[i].body.kmsMessage.userIds = calls[p].params.participants

\* a two-party create with forceGrouped set has issued its creation request
C5_Witness ==
  \E p \in ResolvedCreates :
    /\ Len(calls[p].params.participants) = 2
    /\ Has(calls[p].options, "forceGrouped")
    /\ RequestsOf(p, "create") # {}

\* C6: after identity resolution the participant list of a create starts with
\* the caller's identifier and holds no identifier twice; when it has two
\* entries the second is not the caller's and is the user get is asked about
\* and the lookup request is issued against.
C6_CallerFirstNoDuplicates ==
  \A p \in ResolvedCreates :
    LET ps == calls[p].params.participants
    IN  /\ ps[1] = UserId
        /\ \A i, j \in DOMAIN ps : i # j => ps[i] # ps[j]
        /\ Len(ps) = 2 =>
             /\ ps[2] # UserId
             /\ \A i \in GetIdentityRequests(p) : LogOf(p)[i].ref = ps[2]
             /\ \A i \in RequestsOf(p, "lookup") : LogOf(p)[i].user = ps[2]

\* a create given two references, one of them the caller's own, has issued the
\* lookup against the other party
C6_Witness ==
  \E p \in ResolvedCreates :
    /\ Cardinality({i \in RequestsOf(p, "asUUID") : Has(LogOf(p)[i], "create")}) = 2
    /\ Len(calls[p].params.participants) = 2
    /\ \E i \in RequestsOf(p, "lookup") : LogOf(p)[i].user = "u1"

\* ------------------------------------------------------------ properties of prepare

\* the working activity of the prepare call under study, as validation sees it
PrepShaped == PrepareShape(prep.base, prep.params, [uuid |-> uuids])

\* the then-block of the prepare call under study has run
PrepRan == prep.at = "done" /\ prep.hook # "rejects"

\* actor, object or target is populated on act and has no non-empty objectType
LacksObjectType(act) ==
  \E key \in {"actor", "object", "target"} :
     /\ key \in DOMAIN act
     /\ ~("objectType" \in DOMAIN act[key] /\ act[key].objectType # "")

\* act.object has content and no non-empty displayName
ContentWithoutDisplayName(act) ==
  /\ "object" \in DOMAIN act
  /\ "content" \in DOMAIN act.object /\ act.object.content # ""
  /\ ~("displayName" \in DOMAIN act.object /\ act.object.displayName # "")

\* C7: when prepare resolves, each of actor, object and target populated on
\* the activity it resolves with has a non-empty objectType; when one of them
\* is populated without objectType after the defaults and the target merge,
\* prepare fails and yields no activity.
C7_PreparedEntitiesHaveObjectType ==
  PrepRan =>
    /\ prep.result.ok => ~LacksObjectType(prep.result.act)
    /\ LacksObjectType(PrepShaped) => ~prep.result.ok /\ ~Has(prep.result, "act")

\* prepare was called with a target that carries no objectType and failed on it
C7_Witness ==
  /\ PrepRan
  /\ Has(PrepShaped, "target") /\ ~Has(PrepShaped.target, "objectType")
  /\ prep.result = [ok |-> FALSE, error |-> "objectType must be defined"]

\* C8: when the working activity's object has content and no displayName after
\* the defaults are applied, prepare is rejected; prepare never resolves with an
\* activity whose object has content but no displayName.
C8_ContentNeedsDisplayName ==
  PrepRan =>
    /\ prep.result.ok => ~ContentWithoutDisplayName(prep.result.act)
    /\ ContentWithoutDisplayName(PrepShaped) => ~prep.result.ok

\* prepare was called with an object that has content and no displayName, every
\* objectType in place, and was rejected for it
C8_Witness ==
  /\ PrepRan
  /\ ContentWithoutDisplayName(PrepShaped)
  /\ prep.result = [ok |-> FALSE, error |-> "content but no displayName"]

\* ------------------------------------------------------------ properties of the operations

\* the rejections made before anything else is done
EntryErrors == {"params.participants is required", "object must be an object"}

\* the rejections prepare makes
PrepareErrors == {"objectType must be defined", "content but no displayName"}

\* caller p's operation was rejected with one of `errors`
RejectedWith(p, errors) ==
  /\ calls[p].pc = "rejected"
  /\ Has(calls[p].reason, "error")
  /\ calls[p].reason.error \in errors

\* the requests to the transport, identity and KMS collaborators in p's log
CollaboratorRequests(p) ==
  UNION {RequestsOf(p, what) :
           what \in {"asUUID", "lookup", "create", "get", "createUnboundKeys", "submit"}}

\* C9 as stated: an operation rejected with a validation error has issued no
\* request to the transport, identity or KMS collaborator.
C9_ValidationErrorsIssueNoRequest ==
  \A p \in Callers :
    RejectedWith(p, EntryErrors \cup PrepareErrors) => CollaboratorRequests(p) = {}

\* C9 amended: an operation rejected at its entry (create without participants,
\* a non-object object) has issued no request at all; one rejected by prepare
\* has issued no submission, creation or lookup request, and the only
\* collaborator requests it has issued are those its operation makes before
\* prepare: identity resolution in add, leave, assignModerator and
\* unassignModerator, the conversation fetch in updateKey and, when no key was
\* given, the KMS key request.
C9_ValidationErrorsIssueNoSubmission ==
  \A p \in Callers :
    /\ RejectedWith(p, EntryErrors) => LogOf(p) = <<>>
    /\ RejectedWith(p, PrepareErrors) =>
         /\ RequestsOf(p, "submit") \cup RequestsOf(p, "create")
              \cup RequestsOf(p, "lookup") = {}
         /\ RequestsOf(p, "asUUID") # {} => calls[p].op \in IdentityOps \cup ModerationOps
         /\ RequestsOf(p, "get") # {} => calls[p].op = "updateKey"
         /\ RequestsOf(p, "createUnboundKeys") # {} =>
              calls[p].op = "updateKey" /\ calls[p].arg = Undefined

\* an add was rejected by prepare after its identity request had gone out
C9_Witness ==
  \E p \in Callers :
    /\ calls[p].op = "add"
    /\ RejectedWith(p, PrepareErrors)
    /\ RequestsOf(p, "asUUID") # {}

\* C10: every submission request follows, with nothing but the user-activity
\* trigger in between, a prepare that resolved with the very activity
\* submitted, and that activity has objectType on each populated actor, object
\* and target and no object.content without displayName; an operation whose
\* prepare failed has issued no submission request.
C10_SubmitOnlyAfterPrepare ==
  \A p \in Callers :
    /\ \A i \in RequestsOf(p, "submit") :
         /\ ~LacksObjectType(LogOf(p)[i].body)
         /\ ~ContentWithoutDisplayName(LogOf(p)[i].body)
         /\ \E j \in 1..(i - 1) :
              /\ LogOf(p)[j].kind = "prepared"
              /\ LogOf(p)[j].ok
              /\ LogOf(p)[j].act = LogOf(p)[i].body
              /\ \A k \in (j + 1)..(i - 1) : LogOf(p)[k].kind = "trigger"
    /\ \A j \in DOMAIN LogOf(p) :
         LogOf(p)[j].kind = "prepared" /\ ~LogOf(p)[j].ok =>
           \A i \in RequestsOf(p, "submit") : i < j

\* one caller's update was rejected by prepare with nothing submitted, and
\* another's post went out after its prepare resolved
C10_Witness ==
  \E p \in Callers :
    /\ calls[p].op \in {"update", "post"}
    /\ \/ /\ RejectedWith(p, PrepareErrors)
          /\ \E j \in DOMAIN LogOf(p) : LogOf(p)[j].kind = "prepared" /\ ~LogOf(p)[j].ok
          /\ RequestsOf(p, "submit") = {}
       \/ /\ calls[p].pc = "resolved"
          /\ \E j \in DOMAIN LogOf(p) : LogOf(p)[j].kind = "prepared" /\ LogOf(p)[j].ok
          /\ RequestsOf(p, "submit") # {}

\* ------------------------------------------------------------ properties of updateKey

\* the updateKey calls that have handed params to prepare
KeyedCalls ==
  {p \in Callers : /\ calls[p].op = "updateKey"
                   /\ \E j \in DOMAIN LogOf(p) : LogOf(p)[j].kind = "prepared"}

\* the params caller p's operation handed to prepare
ParamsOf(p) ==
  LogOf(p)[CHOOSE j \in DOMAIN LogOf(p) : LogOf(p)[j].kind = "prepared"].params

\* the conversation the service reported to caller p's updateKey
FetchedBy(p) ==
  LogOf(p)[CHOOSE j \in ResponsesOf(p, "get") : LogOf(p)[j].statusCode = 200].body

\* the uri of the key caller p's updateKey binds: the first of the keys passed
\* in, or of the keys the KMS minted
KeyUriOf(p) ==
  LET keys == IF calls[p].arg # [str |-> ""]
                THEN calls[p].arg
                ELSE LogOf(p)[CHOOSE j \in ResponsesOf(p, "createUnboundKeys") : TRUE].keys
  IN  IF "list" \in DOMAIN keys THEN keys.list[1].uri ELSE keys.uri

\* the conversation reported to p carries a defaultActivityEncryptionKeyUrl
FetchedHasKey(p) ==
  /\ "defaultActivityEncryptionKeyUrl" \in DOMAIN FetchedBy(p)
  /\ FetchedBy(p).defaultActivityEncryptionKeyUrl # ""

DecidedAt(p) ==
  RequestsOf(p, "createUnboundKeys") \cup RequestsOf(p, "submit")
    \cup {j \in DOMAIN LogOf(p) : LogOf(p)[j].kind = "prepared"}

\* C12: in every updateKey call the get request is issued once and answered
\* before a key is asked of the KMS, before prepare and before the submission,
\* and the instruction is an update exactly when the conversation in that
\* call's own get response carries a defaultActivityEncryptionKeyUrl, whatever
\* the caller's reference carries and whatever another call was told.
C12_UpdateKeyDecidesOnOwnFetch ==
  \A p \in Callers :
    calls[p].op = "updateKey" =>
      /\ Cardinality(RequestsOf(p, "get")) <= 1
      /\ \A i \in DecidedAt(p) :
           \E j \in ResponsesOf(p, "get") : j < i /\ LogOf(p)[j].statusCode = 200
      /\ p \in KeyedCalls =>
           (ParamsOf(p).kmsMessage.method = "update") = FetchedHasKey(p)
      /\ p \in KeyedCalls =>
           (ParamsOf(p).kmsMessage.method = "create") = ~FetchedHasKey(p)

\* two updateKey calls on one reference object that carries a key url: one was
\* told the conversation has no key and creates, the other was told it has one
\* and updates
C12_Witness ==
  \E p, q \in KeyedCalls :
    /\ calls[p].ref = calls[q].ref /\ p # q
    /\ Truthy(refs[calls[p].ref], "defaultActivityEncryptionKeyUrl")
    /\ ~FetchedHasKey(p) /\ ParamsOf(p).kmsMessage.method = "create"
    /\ FetchedHasKey(q) /\ ParamsOf(q).kmsMessage.method = "update"
    /\ RequestsOf(p, "submit") # {} /\ RequestsOf(q, "submit") # {}

\* C13: when the KMS rejects the key request of an updateKey that was given no
\* key, the operation is rejected with the reason of that rejection, nothing is
\* prepared or submitted, and no second key request is made.
C13_MintRejectionPropagates ==
  \A p \in Callers :
    \A j \in ResponsesOf(p, "createUnboundKeys") :
      ~LogOf(p)[j].ok =>
        /\ calls[p].pc = "rejected"
        /\ calls[p].reason = [statusCode |-> LogOf(p)[j].statusCode]
        /\ \A i \in DOMAIN LogOf(p) : LogOf(p)[i].kind # "prepared"
        /\ RequestsOf(p, "submit") = {}
        /\ Cardinality(RequestsOf(p, "createUnboundKeys")) = 1
        /\ j = Len(LogOf(p))

\* an updateKey without a key was rejected because the KMS rejected the request
C13_Witness ==
  \E p \in Callers :
    /\ calls[p].op = "updateKey" /\ calls[p].arg = Undefined
    /\ calls[p].pc = "rejected"
    /\ \E j \in ResponsesOf(p, "createUnboundKeys") : ~LogOf(p)[j].ok

\* ------------------------------------------------------------ properties of the kmsMessage

\* the kmsMessages the operations of caller p built: those handed to prepare by
\* add, leave and updateKey, and those of the creation payloads
BuiltKmsMessages(p) ==
  {LogOf(p)[j].params.kmsMessage :
     j \in {j \in DOMAIN LogOf(p) : /\ LogOf(p)[j].kind = "prepared"
                                    /\ calls[p].op \in {"add", "leave", "updateKey"}}}
  \cup {LogOf(p)[i].body.kmsMessage : i \in RequestsOf(p, "create")}

C15_SubmitRouting ==
  \A p \in Callers :
    \A i \in RequestsOf(p, "submit") :
      LET request == LogOf(p)[i]
          share   == "verb" \in DOMAIN request.body /\ request.body.verb = "share"
      IN  /\ request.method = "POST" /\ request.service = "conversation"
          /\ (request.resource = "content") = share
          /\ (request.resource = "activities") = ~share
          /\ request.qs.personRefresh
          /\ share => /\ DOMAIN request.qs = {"personRefresh", "transcode", "async"}
                      /\ request.qs.transcode /\ ~request.qs.async
          /\ ~share => DOMAIN request.qs = {"personRefresh"}

\* a create with files has submitted its share activity to the content resource
C15_Witness ==
  \E p \in Callers :
    \E i \in RequestsOf(p, "submit") :
      /\ LogOf(p)[i].body.verb = "share"
      /\ LogOf(p)[i].resource = "content"

\* the positions in p's log where the user-activity notification is raised
TriggersOf(p) ==
  {j \in DOMAIN LogOf(p) :
     LogOf(p)[j].kind = "trigger" /\ LogOf(p)[j].what = "user-activity"}

\* C16: the user-activity notification is raised once for every submission of
\* an activity whose verb is not acknowledge, right before its request, and is
\* not raised for the submission of an acknowledge.
C16_TriggerUnlessAcknowledge ==
  \A p \in Callers :
    LET noisy == {i \in RequestsOf(p, "submit") : LogOf(p)[i].body.verb # "acknowledge"}
    IN  /\ \A i \in noisy : (i - 1) \in TriggersOf(p)
        /\ \A i \in RequestsOf(p, "submit") \ noisy : (i - 1) \notin TriggersOf(p)
        /\ Cardinality(TriggersOf(p)) = Cardinality(noisy)

\* an acknowledge was submitted and nothing was raised
C16_Witness ==
  \E p \in Callers :
    /\ calls[p].op = "acknowledge"
    /\ RequestsOf(p, "submit") # {}
    /\ TriggersOf(p) = {}

\* ------------------------------------------------------------ properties of the lists

\* the list call resolved with the items of a response that carried some
ListedItems ==
  /\ listing.at = "done" /\ listing.ok
  /\ "body" \in DOMAIN listing.res /\ "items" \in DOMAIN listing.res.body

\* the published values of a sequence of items never fall (never rise)
Ascending(items) ==
  \A i, j \in DOMAIN items : i < j => items[i].published <= items[j].published

Descending(items) ==
  \A i, j \in DOMAIN items : i < j => items[i].published >= items[j].published

\* C17 as stated: whatever the order of the items of the response, the sequence
\* a list method resolves with is in ascending order of published.
C17_ListedAscending ==
  ListedItems => Ascending(listing.result)

\* C17 amended: a list method resolves with the items of the response in the
\* order received, or in the reverse of it when the last item was published
\* before the first; so the result is in ascending order of published whenever
\* the response is in ascending or in descending order, and a response in
\* descending order is returned reversed.
C17_ListedReversedWhenDescending ==
  ListedItems =>
    LET items == listing.res.body.items
        n     == Len(items)
    IN  /\ Len(listing.result) = n
        /\ n > 0 /\ items[n].published < items[1].published =>
             \A i \in 1..n : listing.result[i] = items[n + 1 - i]
        /\ ~(n > 0 /\ items[n].published < items[1].published) =>
             listing.result = items
        /\ Ascending(items) \/ Descending(items) => Ascending(listing.result)

\* a response of three items in strictly descending order was returned reversed
C17_Witness ==
  /\ ListedItems
  /\ Len(listing.result) = 3
  /\ \A i \in 1..3 : listing.result[i].sent = 4 - i
  /\ listing.result[1].published < listing.result[2].published
  /\ listing.result[2].published < listing.result[3].published

\* ------------------------------------------------------------ properties of the references

\* the service-url lookup of caller p's operation has resolved
Inferred(p) ==
  \E j \in ResponsesOf(p, "getServiceUrl") : LogOf(p)[j].ok

\* C18: once _inferConversationUrl has resolved for a reference that had an id
\* and no url, that same reference object carries the url made of the service
\* url, "conversations" and its id, and its id and other fields are as before.
C18_InferredUrl ==
  \A p \in Callers :
    Inferred(p) =>
      LET object == refs[calls[p].ref]
      IN  /\ object.url = <<ServiceUrl, "conversations", object.id>>
          /\ object.id = calls[p].c.id
          /\ \A f \in DOMAIN object \ {"url"} : object[f] = calls[p].c[f]

\* an operation called with {id: "c9"} has had its url inferred
C18_Witness ==
  \E p \in Callers :
    /\ Inferred(p)
    /\ ~Has(calls[p].c, "url")
    /\ refs[calls[p].ref] = [id |-> "c9", url |-> <<ServiceUrl, "conversations", "c9">>]

\* the calls that issued a service-url lookup for the reference object named r
LookupsFor(r) ==
  {p \in Callers :
     Has(calls[p], "ref") /\ calls[p].ref = r /\ RequestsOf(p, "getServiceUrl") # {}}

\* a url a reference object carries is the url it carries after the step
UrlKept ==
  \A r \in Callers :
    Has(refs[r], "url") /\ refs[r].url # <<>> => Has(refs'[r], "url") /\ refs'[r].url = refs[r].url

\* C19 as stated: over all the operations invoked on one reference object, in
\* flight together or not, the service-url lookup is issued at most once, and
\* a url once set is never changed.
C19_OneLookupPerReference ==
  /\ [](\A r \in Callers :
          /\ Cardinality(LookupsFor(r)) <= 1
          /\ \A p \in LookupsFor(r) : Cardinality(RequestsOf(p, "getServiceUrl")) = 1)
  /\ [][UrlKept]_vars

\* caller p's operation is invoked in the step
Invoked(p) == calls[p].pc = "idle" /\ calls'[p].pc # "idle"

\* C19 amended: an operation that is not rejected outright for its arguments
\* issues the service-url lookup, once, exactly when the reference object
\* carries an id and no url at the moment the operation is invoked (one
\* rejected outright issues nothing); so operations invoked after a lookup for
\* the object has
\* resolved issue none, while each operation invoked before that issues its
\* own; and a url once set is never changed, every lookup writing the same url.
C19_LookupWhenUrlUnset ==
  [][ /\ \A p \in Callers :
           /\ Invoked(p) /\ Has(calls'[p], "ref") /\ calls'[p].log # <<>> =>
                LET object == refs'[calls'[p].ref]
                    unset  == /\ ~("url" \in DOMAIN object /\ object.url # <<>>)
                              /\ "id" \in DOMAIN object /\ object.id # ""
                IN  (RequestsOf(p, "getServiceUrl")' # {}) = unset
           /\ ~Invoked(p) => RequestsOf(p, "getServiceUrl")' = RequestsOf(p, "getServiceUrl")
           /\ Cardinality(RequestsOf(p, "getServiceUrl")') <= 1
      /\ UrlKept ]_vars

\* two operations on one reference object have each issued a lookup
C19_Witness ==
  \E r \in Callers : Cardinality(LookupsFor(r)) = 2

\* C20: the activity prepare resolves with keeps every value the partial
\* activity (or hook result) carried for verb, kmsMessage, objectType and
\* clientTempId and for each field of its actor and object, a string actor
\* being kept as the id of a person; verb, kmsMessage, objectType, clientTempId
\* and actor come from params and the defaults only where the activity carried
\* none, and the fields params adds to actor and object are fields they lacked.
C20_DefaultsKeepCallerValues ==
  PrepRan /\ prep.result.ok =>
    LET base   == prep.base
        params == prep.params
        act    == prep.result.act
    IN  /\ \A f \in {"verb", "kmsMessage", "objectType", "clientTempId"} \cap DOMAIN base :
             act[f] = base[f]
        /\ \A f \in {"verb", "kmsMessage"} \ DOMAIN base :
             IF f \in DOMAIN params THEN act[f] = params[f] ELSE f \notin DOMAIN act
        /\ "objectType" \notin DOMAIN base => act.objectType = "activity"
        /\ "clientTempId" \notin DOMAIN base => act.clientTempId = [uuid |-> uuids]
        /\ "actor" \notin DOMAIN base => /\ act.actor.objectType = "person"
                                         /\ act.actor.id = UserId
        /\ "actor" \in DOMAIN base =>
             IF "str" \in DOMAIN base.actor
               THEN act.actor.id = base.actor.str /\ act.actor.objectType = "person"
               ELSE \A f \in DOMAIN base.actor : act.actor[f] = base.actor[f]
        /\ \A key \in {"actor", "object"} \cap DOMAIN base :
             "str" \notin DOMAIN base[key] =>
               /\ \A f \in DOMAIN base[key] : act[key][f] = base[key][f]
               /\ \A f \in DOMAIN act[key] \ DOMAIN base[key] :
                    \/ key \in DOMAIN params /\ f \in DOMAIN params[key]
                         /\ act[key][f] = params[key][f]
                    \/ f = "id" /\ key = "object"
                         /\ act[key].id = act[key].url[Len(act[key].url)]

\* an activity with its own verb, clientTempId and object displayName went
\* through prepare with params that carry a verb and an object displayName
C20_Witness ==
  /\ PrepRan /\ prep.result.ok
  /\ Has(prep.base, "verb") /\ prep.base.verb # prep.params.verb
  /\ Has(prep.base, "clientTempId")
  /\ Has(prep.base, "object") /\ Has(prep.base.object, "displayName")
  /\ Has(prep.params, "object") /\ Has(prep.params.object, "displayName")
  /\ prep.base.object.displayName # prep.params.object.displayName
  /\ prep.result.act.object.displayName = prep.base.object.displayName

\* ------------------------------------------------------------ properties of prepare (target, repetition)

\* the target the partial activity (or hook result) brought to prepare
WorkingTarget == IF Has(prep.base, "target") THEN prep.base.target ELSE Obj0

ButClientTempId(result) ==
  IF result.ok
    THEN [ok |-> TRUE,
          act |-> [f \in DOMAIN result.act \ {"clientTempId"} |-> result.act[f]]]
    ELSE result

DefaultOf(t) ==
  IF Truthy(t, "defaultActivityEncryptionKeyUrl")
    THEN [set |-> TRUE, url |-> t.defaultActivityEncryptionKeyUrl]
    ELSE [set |-> FALSE]

\* the transform of p binds its key in this step
Binds(p) ==
  /\ team.ops[p].pc = "encrypting"
  /\ team'.ops[p] = IdleTransform("resolved")

\* C23: a step of encryptTeam changes team.defaultActivityEncryptionKeyUrl only
\* when it binds a minted key (no key was supplied) to a team that had none
\* set, and it then sets it to that key's uri; so with a supplied key it is
\* left as it was, and once set it is never overwritten.
C23_DefaultKeyUrlKept ==
  [][ team.at = "in use" =>
        /\ DefaultOf(team.object).set => DefaultOf(team'.object) = DefaultOf(team.object)
        /\ \A p \in TeamCallers :
             Binds(p) =>
               IF team.ops[p].supplied \/ DefaultOf(team.object).set
                 THEN DefaultOf(team'.object) = DefaultOf(team.object)
                 ELSE DefaultOf(team'.object) = [set |-> TRUE, url |-> team.ops[p].k.uri]
        /\ (\A p \in TeamCallers : ~Binds(p)) =>
             DefaultOf(team'.object) = DefaultOf(team.object) ]_vars

\* a minted key and then a supplied key were bound to a team that began
\* without a default key url, and the default is still the minted key's
C23_Witness ==
  /\ team.at = "in use"
  /\ Len(team.bound) = 2
  /\ team.bound[1] \in {"k-new", "k-newer"}
  /\ team.bound[2] \in {"k1", "k2"}
  /\ team.object.encryptionKeyUrl = team.bound[2]
  /\ DefaultOf(team.object) = [set |-> TRUE, url |-> team.bound[1]]

\* the team carries kmsMessage.keyUris
TracksKeyUris ==
  /\ team.at = "in use"
  /\ Has(team.object, "kmsMessage")
  /\ Has(team.object.kmsMessage, "keyUris")

\* C24: at every point of every sequence of encryptTeam calls, a team that
\* carries kmsMessage.keyUris has no uri in it twice and has in it the uri of
\* every key the calls have bound.
C24_KeyUrisTrackBoundKeys ==
  TracksKeyUris =>
    LET keyUris == team.object.kmsMessage.keyUris
    IN  /\ \A i, j \in DOMAIN keyUris : keyUris[i] = keyUris[j] => i = j
        /\ \A i \in DOMAIN team.bound : team.bound[i] \in Range(keyUris)

\* a key passed as its uri was bound, and keyUris holds an undefined entry in
\* place of that uri
C24_Witness ==
  /\ TracksKeyUris
  /\ team.bound # <<>>
  /\ team.object.encryptionKeyUrl = "k1"
  /\ "k1" \notin Range(team.object.kmsMessage.keyUris)
  /\ NoUri \in Range(team.object.kmsMessage.keyUris)

\* ------------------------------------------------------------ properties of the pipeline order

\* the operations C25 names
TargetingOps == ObjectOps \cup IdentityOps \cup ModerationOps \cup {"post"}

\* the activities caller p's operation has handed to submit
SubmittedBy(p) == {LogOf(p)[i].body : i \in RequestsOf(p, "submit")}

\* caller p's operation was given a reference with id and no url, and has
\* handed an activity to submit
SubmittedAfterInference(p) ==
  /\ calls[p].op \in TargetingOps
  /\ RequestsOf(p, "getServiceUrl") # {}
  /\ SubmittedBy(p) # {}

\* C25: when an operation that was given a reference with id and no url hands
\* its activity to submit, the reference has its inferred url and the
\* activity's target.url is that url.
C25_TargetCarriesInferredUrl ==
  \A p \in Callers :
    SubmittedAfterInference(p) =>
      /\ Truthy(refs[calls[p].ref], "url")
      /\ \A a \in SubmittedBy(p) :
           /\ Has(a, "target") /\ Has(a.target, "url")
           /\ a.target.url = InferredUrl(refs[calls[p].ref])

\* a tag given {id} handed submit an activity whose target has no url, the
\* reference having its inferred url by then
C25_Witness ==
  \E p \in Callers :
    /\ calls[p].op = "tag"
    /\ SubmittedAfterInference(p)
    /\ refs[calls[p].ref].url = InferredUrl(refs[calls[p].ref])
    /\ \E a \in SubmittedBy(p) : ~Has(a.target, "url")

\* ------------------------------------------------------------ properties of retrying and termination

\* the sorts of request an operation sends to its collaborators
RequestSorts ==
  {"asUUID", "lookup", "create", "get", "createUnboundKeys", "getServiceUrl", "submit"}

\* positions in p's log where prepare handed an activity on to submit
SubmitCalls(p) ==
  {i \in DOMAIN LogOf(p) : LogOf(p)[i].kind = "prepared" /\ LogOf(p)[i].ok}

\* the response at position i of p's log reports a failure
FailedAt(p, i) ==
  /\ LogOf(p)[i].kind = "response"
  /\ \/ Has(LogOf(p)[i], "statusCode") /\ LogOf(p)[i].statusCode # 200
     \/ Has(LogOf(p)[i], "ok") /\ ~LogOf(p)[i].ok

\* C26: in every run, with or without failures, each submit call has issued
\* exactly one transport request, a create call has issued at most one lookup
\* request and at most one conversation-creation request, and a failed
\* response to an identity, lookup, creation, fetch, key or service-url request
\* is followed by no request of its sort (a submit request follows a failed
\* one only as the one request of a later submit call).
C26_NoRequestReissued ==
  \A p \in Callers :
    /\ Cardinality(RequestsOf(p, "submit")) = Cardinality(SubmitCalls(p))
    /\ \A i \in RequestsOf(p, "submit") :
         \E j \in SubmitCalls(p) :
            /\ j < i /\ LogOf(p)[j].act = LogOf(p)[i].body
            /\ \A k \in (j + 1)..(i - 1) : LogOf(p)[k].kind = "trigger"
    /\ Cardinality(RequestsOf(p, "lookup")) <= 1
    /\ Cardinality(RequestsOf(p, "create")) <= 1
    /\ \A what \in RequestSorts \ {"submit"} :
         \A i \in ResponsesOf(p, what) :
            FailedAt(p, i) => \A j \in RequestsOf(p, what) : j < i

\* a create found the conversation, its comment post failed with 404, the
\* creation it then asked for failed too, and it was rejected
C26_Witness ==
  \E p \in Callers :
    /\ calls[p].op = "create" /\ calls[p].pc = "rejected"
    /\ Cardinality(RequestsOf(p, "lookup")) = 1
    /\ Cardinality(RequestsOf(p, "submit")) = 1
    /\ Cardinality(RequestsOf(p, "create")) = 1
    /\ \E i \in ResponsesOf(p, "submit") : FailedAt(p, i)
    /\ \E i \in ResponsesOf(p, "create") : FailedAt(p, i)

\* ------------------------------------------------------------ properties of _list (recording)

\* C27: while _list awaits the recordings, the recording of every item has
\* been started; and when _list has resolved for a response with items, it has
\* resolved with those items and no item's recording is pending.
C27_ResolvesAfterEveryRecording ==
  /\ listing.at = "recording" =>
       /\ listing.started = DOMAIN listing.items
       /\ listing.pending # {} /\ listing.pending \subseteq listing.awaited
  /\ ListedItems /\ listing.items # <<>> =>
       /\ listing.started = DOMAIN listing.items
       /\ listing.pending = {}
       /\ listing.result = listing.items

\* a list of three items, each with participants to record, has resolved
C27_Witness ==
  /\ ListedItems
  /\ Len(listing.items) = 3
  /\ listing.awaited = 1..3
  /\ listing.pending = {}
  /\ listing.result = listing.items

\* caller p's create call has neither resolved nor rejected
Unsettled(p) == calls[p].op = "create" /\ calls[p].pc \notin {"resolved", "rejected"}

\* C28: with every request eventually answered, a create call, once made,
\* eventually resolves or rejects, whether it is in the lookup of the
\* two-party path, in the comment's post, in the creation or in the share: no
\* state of the call waits forever and none leads back to the lookup.
C28_CreateTerminates ==
  (\E p \in Callers : Unsettled(p)) ~> (\A p \in Callers : ~Unsettled(p))

\* a two-party create whose lookup was answered 404 has resolved with the
\* conversation it created
C28_Witness ==
  \E p \in Callers :
    /\ calls[p].op = "create" /\ calls[p].pc = "resolved"
    /\ \E i \in ResponsesOf(p, "lookup") : LogOf(p)[i].statusCode = NotFound
    /\ \E i \in ResponsesOf(p, "create") : LogOf(p)[i].statusCode = 200

====
